---- MODULE Spec2Model ----
(***************************************************************************)
(* State-machine model of the SRT protocol core and bonding layer:         *)
(* sequence arithmetic (srt-protocol/src/sequence.rs), send and receive    *)
(* buffers (buffer.rs), loss list (loss.rs), connection state machine      *)
(* (connection.rs), the broadcast receiver (srt-bonding/broadcast.rs), the *)
(* socket group (group.rs), backup bonding (backup.rs) and the load        *)
(* balancer (balancing.rs).                                                *)
(* Each component has its own specification (SpecSend, SpecRecv, ...);     *)
(* the variables of the other components stay at their initial values.     *)
(***************************************************************************)
EXTENDS Integers, Sequences, FiniteSets, TLC

\* ------------------------------------------------------------------------
\* Sequence numbers (sequence.rs)
\* ------------------------------------------------------------------------

MAX_SEQ_NUMBER == 2147483647

HALF_SPACE == MAX_SEQ_NUMBER \div 2

\* SeqNumber::next : (self.0 + 1) & MAX_SEQ_NUMBER
SeqNext(s) == IF s = MAX_SEQ_NUMBER THEN 0 ELSE s + 1

\* Add<u32>: new_unchecked(self.0.wrapping_add(rhs)), for rhs <= MAX_SEQ_NUMBER
SeqAdd(s, k) == IF s > MAX_SEQ_NUMBER - k THEN (s - (MAX_SEQ_NUMBER - k)) - 1 ELSE s + k

\* a subtraction that stops at 0
SeqSubSaturating(s, k) == IF s >= k THEN s - k ELSE 0

\* Sub<u32>: new_unchecked(self.0.wrapping_sub(rhs)), for rhs <= MAX_SEQ_NUMBER
SeqSub(s, k) == IF s >= k THEN s - k ELSE ((s - k) + MAX_SEQ_NUMBER) + 1

\* a distance that folds only the differences above half the space
distance_folded_above(self, other) ==
    LET diff == other - self
    IN  IF diff > HALF_SPACE THEN (diff - MAX_SEQ_NUMBER) - 1 ELSE diff

\* SeqNumber::distance_to.  For two 31-bit values other.0.wrapping_sub(self.0)
\* reinterpreted as i32 is the plain integer difference.
distance_to(self, other) ==
    LET diff == other - self
    IN  IF diff > HALF_SPACE THEN (diff - MAX_SEQ_NUMBER) - 1
        ELSE IF diff < -HALF_SPACE THEN (diff + MAX_SEQ_NUMBER) + 1
        ELSE diff

SeqLt(a, b) == distance_to(a, b) > 0

SeqLe(a, b) == a = b \/ SeqLt(a, b)

SeqGt(a, b) == distance_to(a, b) < 0

SeqGe(a, b) == a = b \/ SeqGt(a, b)

\* usize::next_power_of_two
RECURSIVE Pow2From(_, _)
Pow2From(p, n) == IF p >= n THEN p ELSE Pow2From(2 * p, n)

next_power_of_two(n) == Pow2From(1, n)

\* ------------------------------------------------------------------------
\* Bounds
\* ------------------------------------------------------------------------

\* capacity argument of SendBuffer::new
SendCapacityArg == 2

\* pushes explored on one send buffer
MaxPush == 3

\* clock ticks explored
MaxTime == 2

\* retransmissions explored per stored packet
MaxSendCount == 2

\* ttl argument of SendBuffer::new, in clock ticks
SendTtl == 1

\* number of consecutive sequence numbers, straddling the wrap from
\* MAX_SEQ_NUMBER to 0, that are reported lost
LossWindow == 6

\* add / add_range calls explored on one loss list
MaxLossCalls == 5

\* members feeding one broadcast receiver
BcastMembers == 3

\* consecutive group sequence numbers fed round the wrap, from MAX_SEQ_NUMBER - 2
BcastWrapWindow == 4

\* on_packet_received calls explored round the wrap
MaxBcastWrapCalls == 5

\* highest group sequence number fed to the broadcast receiver
BcastMaxSeq == 2

\* max_buffer_size argument of BroadcastReceiver::new
BcastBufferSize == 2

\* threads calling into one SocketGroup
GroupThreads == 2

\* max_members argument of SocketGroup::new
GroupMaxMembers == 2

\* local socket ids of the connections offered to add_member
GroupIds == 3

\* calls started on the SocketGroup
MaxGroupCalls == 4

\* members of the group of the broadcast sender
BsMembers == 2

\* BroadcastSender::send calls explored
MaxBsSends == 7

\* largest flow window given to the congestion controller
MaxFlowWindow == 4

\* largest packet count passed to on_ack and on_loss
MaxAcked == 2

\* congestion controller calls explored
MaxCcCalls == 5

\* largest min_nak_interval given to the NAK generator, in clock ticks
MaxNakInterval == 2

\* generate_nak calls explored
MaxNakCalls == 5

\* consecutive sequence numbers given to the NAK-reporting and sender loss lists
NakWindow == 3

\* calls explored on a loss list that is added to, removed from and reported
MaxLossNakCalls == 4

\* largest nak_interval of a loss list, in clock ticks
MaxLossNakInterval == 1

\* largest max_nak_count of a loss list
MaxNakCount == 2

\* receive threads calling on_packet_received on one BroadcastReceiver
BrtThreads == 2

\* on_packet_received calls explored with concurrent receive threads
MaxBrtCalls == 4

\* sequence numbers tried on each side of 0, of half the space and of
\* MAX_SEQ_NUMBER
SqNear == 1

\* consecutive sequence numbers given to the alignment buffer
AbWindow == 4

\* max_buffer_size of the alignment buffer
AbBufferSize == 2

\* max_packet_age of the alignment buffer, in clock ticks
AbMaxAge == 1

\* alignment buffer calls explored
MaxAbCalls == 5

\* LoadBalancer instances in the process
LbBalancers == 2

\* members of each balancer's group
LbMembers == 2

\* LoadBalancer::send calls explored
MaxLbSends == 4

\* members of the group used by backup bonding
BackupMembers == 3

\* set_primary / add_backup / send / health_check / manual_failover calls explored
MaxBackupOps == 5

\* health_check_interval argument of BackupBonding::new, in clock ticks
HealthInterval == 1

\* largest failure_threshold argument of BackupBonding::new
MaxFailureThreshold == 1

\* capacity argument of ReceiveBuffer::new
RecvCapacityArg == 4

\* highest sequence number of a pushed data packet
RecvMaxSeq == 4

\* push calls explored on one receive buffer
MaxRecvPush == 4

VARIABLES
    now,                \* monotonic clock (Instant::now)
    sb_buffer,          \* SendBuffer.buffer
    sb_next_seq,        \* SendBuffer.next_seq
    sb_oldest_unacked,  \* SendBuffer.oldest_unacked
    sb_oldest_in_buffer,\* SendBuffer.oldest_in_buffer
    sb_acked,           \* sequence numbers whose entry was marked acknowledged
    sb_dropped,         \* sequence numbers removed by the TTL sweep
    sb_last             \* <<"pushed", s>> or <<"full", swept>> right after a push,
                        \* <<"acked", s>> right after acknowledge_up_to(s),
                        \* <<"flushed", s>> right after the flush that follows it

VARIABLES
    rb_buffer,           \* ReceiveBuffer.buffer
    rb_next_expected,    \* ReceiveBuffer.next_expected
    rb_highest_received, \* ReceiveBuffer.highest_received
    rb_ready_messages,   \* ReceiveBuffer.ready_messages
    rb_popped,           \* messages returned by pop_message so far, in order
    rb_pushed,           \* packets handed to push that returned Ok
    rb_pushes,           \* number of push calls made
    rb_reordered,        \* TRUE once a packet ahead of next_expected was stored
    rb_status            \* "ok", or "hung" once a call no longer returns

VARIABLES
    conn_state,            \* Connection.state
    conn_remote_socket_id, \* Connection.remote_socket_id: <<>> is None, <<id>> is Some(id)
    conn_options,          \* Connection.options: the capabilities that are true
    conn_stats,            \* Connection.stats
    conn_last,             \* the Connection method called last
    conn_result            \* what that call returned

varsConn == <<conn_state, conn_remote_socket_id, conn_options, conn_stats,
              conn_last, conn_result>>

VARIABLES
    ll_losses,   \* LossList.losses
    ll_added,    \* every sequence number handed to add or add_range so far
    ll_calls     \* number of add / add_range calls made

varsLoss == <<ll_losses, ll_added, ll_calls>>

VARIABLES
    br_received,       \* BroadcastReceiver.received: map from seq to packet info
    br_next_expected,  \* BroadcastReceiver.next_expected
    br_ready_queue,    \* BroadcastReceiver.ready_queue
    br_popped,         \* packets returned by pop_ready_packet so far, in order
    br_calls           \* on_packet_received calls made: seq, member and result

varsBcast == <<br_received, br_next_expected, br_ready_queue, br_popped, br_calls>>

VARIABLES
    grp_status,    \* SocketGroup.members: map from member id to MemberStats.status
    grp_next_seq   \* SocketGroup.next_seq

varsGroup == <<grp_status, grp_next_seq>>

VARIABLES
    grp_members_lock,  \* thread holding members.write(), 0 when free
    grp_seq_lock,      \* thread holding next_seq.write(), 0 when free
    grp_pc,            \* per thread: the call in progress and where it stands
    grp_returned,      \* values returned by next_sequence, in order of return
    grp_calls          \* number of calls started

varsGroupCalls == <<grp_members_lock, grp_seq_lock, grp_pc, grp_returned, grp_calls>>

VARIABLES
    bk_primary_id,         \* BackupBonding.primary_id (BK_None for None)
    bk_backup_ids,         \* BackupBonding.backup_ids
    bk_failover_history,   \* BackupBonding.failover_history
    bk_last_health_check,  \* BackupBonding.last_health_check
    bk_failure_threshold,  \* BackupBonding.failure_threshold
    bk_last,               \* the last call on the BackupBonding and what it did
    bk_ops                 \* number of calls made on the BackupBonding

varsBackup == <<bk_primary_id, bk_backup_ids, bk_failover_history,
                bk_last_health_check, bk_failure_threshold, bk_last, bk_ops>>

VARIABLES
    lb_COUNTER,     \* the static COUNTER of LoadBalancer::select_path
    lb_order,       \* per balancer: iteration order of its group's member map
    lb_status,      \* per balancer: status of each member of its group
    lb_capacities,  \* per balancer: LoadBalancer.capacities
    lb_next_seq,    \* per balancer: next_seq of its group
    lb_selected,    \* per balancer: path_id of every Ok result, in order
    lb_last,        \* the last send call: balancer, paths tried, result
    lb_sends        \* number of send calls made

varsBalancer == <<lb_COUNTER, lb_order, lb_status, lb_capacities, lb_next_seq,
                  lb_selected, lb_last, lb_sends>>

varsBond == <<varsGroup, varsGroupCalls, varsBackup, varsBalancer>>

VARIABLES
    bs_status,         \* status of each member of the broadcast sender's group
    bs_failure_count,  \* MemberStats.failure_count of each member
    bs_next_seq,       \* next_seq of the group
    bs_streak,         \* per member: send failures since its last successful send
    bs_longest,        \* per member: longest run of consecutive send failures
    bs_last,           \* the last send call: members attempted, failed, result
    bs_sends           \* number of send calls made

varsBsend == <<bs_status, bs_failure_count, bs_next_seq, bs_streak, bs_longest,
               bs_last, bs_sends>>

VARIABLES
    cc_flow_window,            \* flow_window
    cc_congestion_window,      \* congestion_window
    cc_ssthresh,               \* ssthresh
    cc_slow_start,             \* slow_start
    cc_packets_in_flight,      \* packets_in_flight
    cc_last_congestion_event,  \* last_congestion_event, CC_None before the first
    cc_last,                   \* the last call: operation, window before it
    cc_calls                   \* number of calls made

varsCong == <<cc_flow_window, cc_congestion_window, cc_ssthresh, cc_slow_start,
              cc_packets_in_flight, cc_last_congestion_event, cc_last, cc_calls>>

VARIABLES
    nk_min_nak_interval,  \* min_nak_interval
    nk_last_nak_time,     \* last_nak_time
    nk_last,              \* the last generate_nak call: input, time, result
    nk_produced_at,       \* times at which a NAK packet was produced
    nk_calls              \* number of generate_nak calls made

varsNak == <<nk_min_nak_interval, nk_last_nak_time, nk_last, nk_produced_at,
             nk_calls>>

VARIABLES
    ll_max_nak_count,  \* max_nak_count of the loss list
    ll_nak_interval,   \* nak_interval of the loss list
    ll_last,           \* the last call on the list: operation, argument, result
    ll_last_report,    \* per sequence number: when get_nak_ranges last returned it
    ll_popped          \* pop_next results since the last add or remove

varsLossNak == <<ll_max_nak_count, ll_nak_interval, ll_last, ll_last_report,
                 ll_popped>>

VARIABLES
    ab_buffer,         \* buffer: sequence number -> when first received, duplicates
    ab_next_expected,  \* next_expected
    ab_last,           \* the last call: operation, argument, result, packets returned
    ab_start,          \* next_expected as new or set_next_expected left it
    ab_delivered,      \* sequence numbers popped since then
    ab_calls           \* number of calls made

varsAlign == <<ab_buffer, ab_next_expected, ab_last, ab_start, ab_delivered,
               ab_calls>>

VARIABLES
    sq_a,    \* a sequence number
    sq_b,    \* another sequence number
    sq_k,    \* a step, below 2^30
    sq_op,   \* the operation applied last
    sq_out   \* what it returned

varsSeq == <<sq_a, sq_b, sq_k, sq_op, sq_out>>

VARIABLES
    brt_pc,                  \* per receive thread: where on_packet_received stands
    brt_packet,              \* per receive thread: the packet of the call
    brt_seen,                \* per receive thread: the next_expected it read
    brt_received_lock,       \* thread holding received.write(), 0 when free
    brt_next_expected_lock   \* thread holding next_expected.write(), 0 when free

varsBrt == <<brt_pc, brt_packet, brt_seen, brt_received_lock, brt_next_expected_lock>>

varsMore == <<varsBsend, varsCong, varsNak, varsLossNak, varsAlign, varsSeq, varsBrt>>

varsRecv == <<rb_buffer, rb_next_expected, rb_highest_received, rb_ready_messages,
              rb_popped, rb_pushed, rb_pushes, rb_reordered, rb_status>>

varsSend == <<sb_buffer, sb_next_seq, sb_oldest_unacked, sb_oldest_in_buffer,
              sb_acked, sb_dropped, sb_last>>

\* ------------------------------------------------------------------------
\* SendBuffer (buffer.rs)
\* ------------------------------------------------------------------------

sb_capacity == next_power_of_two(SendCapacityArg)

SB_None == [some |-> FALSE, seq |-> 0, payload |-> <<>>, first_sent |-> 0,
            last_sent |-> 0, send_count |-> 0, acknowledged |-> FALSE,
            retransmitted |-> FALSE]

\* SendBuffer::index : seq & mask
sb_index(seq) == seq % sb_capacity

\* SendBuffer::len and available_space.  len is next_seq - oldest_unacked in
\* u32 wrapping arithmetic: a negative difference wraps to a value above 2^31,
\* which saturating_sub turns into no space at all.
sb_available_space(next_seq, oldest_unacked) ==
    IF next_seq >= oldest_unacked /\ next_seq - oldest_unacked < sb_capacity
    THEN sb_capacity - (next_seq - oldest_unacked)
    ELSE 0

\* SendBuffer::drop_expired on a buffer value
sb_expired(slot) == slot.some /\ now - slot.first_sent > SendTtl

sb_drop_expired(buf) ==
    [i \in DOMAIN buf |-> IF sb_expired(buf[i]) THEN SB_None ELSE buf[i]]

sb_expired_seqs(buf) == {buf[i].seq : i \in {j \in DOMAIN buf : sb_expired(buf[j])}}

\* SendBuffer::get
sb_get_ok(buf, seq) == buf[sb_index(seq)].some /\ buf[sb_index(seq)].seq = seq

\* SendBuffer::acknowledge on a buffer value (NotFound leaves it unchanged)
sb_acknowledge(buf, seq) ==
    IF sb_get_ok(buf, seq)
    THEN [buf EXCEPT ![sb_index(seq)].acknowledged = TRUE]
    ELSE buf

\* the while loop of SendBuffer::acknowledge_up_to
RECURSIVE sb_ack_loop(_, _, _, _)
sb_ack_loop(buf, current, seq, next_seq) ==
    IF SeqLe(current, seq) /\ SeqLt(current, next_seq)
    THEN sb_ack_loop(sb_acknowledge(buf, current), SeqNext(current), seq, next_seq)
    ELSE buf

\* the while loop of SendBuffer::flush_acknowledged: <<buffer, current>>
RECURSIVE sb_flush_loop(_, _, _)
sb_flush_loop(buf, current, next_seq) ==
    IF SeqLt(current, next_seq)
    THEN IF buf[sb_index(current)].some
         THEN IF buf[sb_index(current)].acknowledged
              THEN sb_flush_loop([buf EXCEPT ![sb_index(current)] = SB_None],
                                 SeqNext(current), next_seq)
              ELSE <<buf, current>>
         ELSE sb_flush_loop(buf, SeqNext(current), next_seq)
    ELSE <<buf, current>>

InitSend ==
    /\ sb_buffer = [i \in 0..(sb_capacity - 1) |-> SB_None]
    /\ sb_next_seq = 0
    /\ sb_oldest_unacked = 0
    /\ sb_oldest_in_buffer = 0
    /\ sb_acked = {}
    /\ sb_dropped = {}
    /\ sb_last = <<"none", 0>>

SB_Payloads == {<<1>>, <<2>>}

\* sequence numbers handed to get_for_send / acknowledge / acknowledge_up_to:
\* every pushed one, one not yet pushed, and the one just before 0.  (An
\* argument half the sequence space away makes the acknowledge_up_to loop run
\* about 2^30 times; such arguments are left out.)
SB_SeqArgs == 0..MaxPush \cup {MAX_SEQ_NUMBER}

\* SendBuffer::push
SB_push(payload) ==
    LET swept == sb_available_space(sb_next_seq, sb_oldest_unacked) = 0
        buf0  == IF swept THEN sb_drop_expired(sb_buffer) ELSE sb_buffer
        seq   == sb_next_seq
    IN  /\ sb_next_seq < MaxPush
        /\ sb_dropped' = IF swept THEN sb_dropped \cup sb_expired_seqs(sb_buffer)
                         ELSE sb_dropped
        /\ IF swept /\ sb_available_space(sb_next_seq, sb_oldest_unacked) = 0
           THEN \* Err(Full): the sweep clears slots but moves neither
                \* next_seq nor oldest_unacked
                /\ sb_buffer' = buf0
                /\ sb_next_seq' = sb_next_seq
                /\ sb_last' = <<"full", Cardinality(sb_expired_seqs(sb_buffer))>>
           ELSE /\ sb_buffer' = [buf0 EXCEPT ![sb_index(seq)] =
                        [some |-> TRUE, seq |-> seq, payload |-> payload,
                         first_sent |-> now, last_sent |-> now, send_count |-> 1,
                         acknowledged |-> FALSE, retransmitted |-> FALSE]]
                /\ sb_next_seq' = SeqNext(seq)
                /\ sb_last' = <<"pushed", seq>>
        /\ UNCHANGED <<sb_oldest_unacked, sb_oldest_in_buffer, sb_acked>>

\* SendBuffer::get_for_send
SB_get_for_send(seq) ==
    LET idx == sb_index(seq)
        sc  == sb_buffer[idx].send_count + 1
    IN  /\ IF sb_get_ok(sb_buffer, seq)
           THEN /\ sb_buffer[idx].send_count < MaxSendCount
                /\ sb_buffer' = [sb_buffer EXCEPT ![idx].last_sent = now,
                                                  ![idx].send_count = sc,
                                                  ![idx].retransmitted =
                                                      IF sc > 1 THEN TRUE ELSE @]
           ELSE sb_buffer' = sb_buffer
        /\ sb_last' = <<"none", 0>>
        /\ UNCHANGED <<sb_next_seq, sb_oldest_unacked, sb_oldest_in_buffer,
                       sb_acked, sb_dropped>>

\* SendBuffer::acknowledge
SB_acknowledge(seq) ==
    /\ sb_buffer' = sb_acknowledge(sb_buffer, seq)
    /\ sb_acked' = IF sb_get_ok(sb_buffer, seq) THEN sb_acked \cup {seq} ELSE sb_acked
    /\ sb_last' = <<"none", 0>>
    /\ UNCHANGED <<sb_next_seq, sb_oldest_unacked, sb_oldest_in_buffer, sb_dropped>>

\* SendBuffer::acknowledge_up_to
SB_acknowledge_up_to(seq) ==
    LET buf == sb_ack_loop(sb_buffer, sb_oldest_unacked, seq, sb_next_seq)
    IN  /\ sb_buffer' = buf
        /\ sb_acked' = sb_acked \cup
               {buf[i].seq : i \in {j \in DOMAIN buf : buf[j].some /\ buf[j].acknowledged}}
        /\ sb_oldest_unacked' = SeqNext(seq)
        /\ sb_last' = <<"acked", seq>>
        /\ UNCHANGED <<sb_next_seq, sb_oldest_in_buffer, sb_dropped>>

\* SendBuffer::flush_acknowledged
SB_flush_acknowledged ==
    LET r == sb_flush_loop(sb_buffer, sb_oldest_in_buffer, sb_next_seq)
    IN  /\ sb_buffer' = r[1]
        /\ sb_oldest_in_buffer' = r[2]
        /\ sb_oldest_unacked' = r[2]
        /\ sb_last' = IF sb_last[1] = "acked" THEN <<"flushed", sb_last[2]>> ELSE <<"none", 0>>
        /\ UNCHANGED <<sb_next_seq, sb_acked, sb_dropped>>

\* SendBuffer::drop_expired
SB_drop_expired ==
    /\ sb_buffer' = sb_drop_expired(sb_buffer)
    /\ sb_dropped' = sb_dropped \cup sb_expired_seqs(sb_buffer)
    /\ sb_last' = <<"none", 0>>
    /\ UNCHANGED <<sb_next_seq, sb_oldest_unacked, sb_oldest_in_buffer, sb_acked>>

\* ------------------------------------------------------------------------
\* ReceiveBuffer (buffer.rs)
\* ------------------------------------------------------------------------

rb_capacity == next_power_of_two(RecvCapacityArg)

RB_None == [some |-> FALSE, seq |-> 0, boundary |-> "Solo", msg |-> 0, payload |-> <<>>]

\* ReceiveBuffer::index : seq & mask
rb_index(seq) == seq % rb_capacity

rb_clear(buf, seq) == [buf EXCEPT ![rb_index(seq)] = RB_None]

\* the concatenation of the collected payloads (message.extend_from_slice)
rb_concat_swapped(message, payload) == payload \o message

rb_concat(message, payload) == message \o payload

\* a run that takes packets of any message number
rb_any_message(slot, first_msg) == TRUE

\* msg_num.seq != first_msg_num ends the run
rb_same_message(slot, first_msg) == slot.msg = first_msg

\* the loop of ReceiveBuffer::reassemble_multi_packet_message, started at
\* current = next_expected with no payload collected.  n counts the packets
\* collected.  The result is [kind, buf, next_expected, message]; kind is
\* "some" (a message), "none", or "hung": once n reaches the capacity every
\* slot has been scanned without finding Last, no slot changes, and the loop
\* never ends.
RECURSIVE rb_multi_loop(_, _, _, _, _, _)
rb_multi_loop(buf, ne, current, first_msg, n, message) ==
    LET slot == buf[rb_index(current)]
        none == [kind |-> "none", buf |-> buf, next_expected |-> ne, message |-> <<>>]
    IN  IF n >= rb_capacity THEN [none EXCEPT !.kind = "hung"]
        ELSE IF ~slot.some THEN none
        ELSE IF ~rb_same_message(slot, first_msg) THEN none
        ELSE IF slot.boundary = "Last"
        THEN [kind |-> "some",
              buf |-> [i \in DOMAIN buf |->
                         IF \E k \in 0..n : i = rb_index(SeqAdd(ne, k))
                         THEN RB_None ELSE buf[i]],
              next_expected |-> SeqNext(current),
              message |-> rb_concat(message, slot.payload)]
        ELSE IF slot.boundary \in {"First", "Subsequent"}
        THEN rb_multi_loop(buf, ne, SeqNext(current), first_msg, n + 1,
                           rb_concat(message, slot.payload))
        ELSE none

\* ReceiveBuffer::reassemble_multi_packet_message
rb_reassemble_multi(buf, ne) ==
    IF ~buf[rb_index(ne)].some
    THEN [kind |-> "none", buf |-> buf, next_expected |-> ne, message |-> <<>>]
    ELSE rb_multi_loop(buf, ne, ne, buf[rb_index(ne)].msg, 0, <<>>)

\* ReceiveBuffer::reassemble_messages : [buf, next_expected, ready, status]
RECURSIVE rb_reassemble_messages(_, _, _)
rb_reassemble_messages(buf, ne, ready) ==
    LET slot == buf[rb_index(ne)]
        stop == [buf |-> buf, next_expected |-> ne, ready |-> ready, status |-> "ok"]
    IN  IF ~slot.some THEN stop
        ELSE IF slot.boundary = "Solo"
        THEN rb_reassemble_messages(rb_clear(buf, ne), SeqNext(ne),
                                    Append(ready, slot.payload))
        ELSE IF slot.boundary = "First"
        THEN LET m == rb_reassemble_multi(buf, ne)
             IN  IF m.kind = "some"
                 THEN rb_reassemble_messages(m.buf, m.next_expected,
                                             Append(ready, m.message))
                 ELSE IF m.kind = "hung" THEN [stop EXCEPT !.status = "hung"]
                 ELSE stop
        ELSE rb_reassemble_messages(rb_clear(buf, ne), SeqNext(ne), ready)

\* a loss list that leaves out next_expected itself
rb_loss_start_after(ne) == SeqNext(ne)

\* let mut current = self.next_expected
rb_loss_start(ne) == ne

\* the while loop of ReceiveBuffer::get_loss_list
RECURSIVE rb_loss_loop(_, _, _, _)
rb_loss_loop(buf, current, hi, losses) ==
    IF SeqLe(current, hi)
    THEN rb_loss_loop(buf, SeqNext(current), hi,
                      IF ~buf[rb_index(current)].some THEN Append(losses, current)
                      ELSE losses)
    ELSE losses

\* ReceiveBuffer::get_loss_list
rb_get_loss_list(buf, ne, hi) == rb_loss_loop(buf, rb_loss_start(ne), hi, <<>>)

InitRecv ==
    /\ rb_buffer = [i \in 0..(rb_capacity - 1) |-> RB_None]
    /\ rb_next_expected = 0
    /\ rb_highest_received = 0
    /\ rb_ready_messages = <<>>
    /\ rb_popped = <<>>
    /\ rb_pushed = {}
    /\ rb_pushes = 0
    /\ rb_reordered = FALSE
    /\ rb_status = "ok"

PacketBoundary == {"Solo", "First", "Subsequent", "Last"}

\* the payload of a data packet names the sequence number it was sent with
RB_payload(seq) == <<seq>>

\* ReceiveBuffer::push
RB_push(packet) ==
    LET seq == packet.seq
        buf == [rb_buffer EXCEPT ![rb_index(seq)] =
                   [some |-> TRUE, seq |-> seq, boundary |-> packet.boundary,
                    msg |-> packet.msg, payload |-> packet.payload]]
        hi  == IF SeqGt(seq, rb_highest_received) THEN seq ELSE rb_highest_received
        r   == rb_reassemble_messages(buf, rb_next_expected, rb_ready_messages)
    IN  /\ rb_status = "ok"
        /\ rb_pushes < MaxRecvPush
        /\ rb_pushes' = rb_pushes + 1
        /\ IF SeqLt(seq, rb_next_expected)
           THEN \* too old: Ok(()) and nothing stored
                /\ rb_pushed' = rb_pushed \cup {packet}
                /\ UNCHANGED <<rb_buffer, rb_next_expected, rb_highest_received,
                               rb_ready_messages, rb_status, rb_reordered>>
           ELSE IF distance_to(rb_next_expected, seq) >= rb_capacity
           THEN \* Err(OutOfRange)
                UNCHANGED <<rb_buffer, rb_next_expected, rb_highest_received,
                            rb_ready_messages, rb_status, rb_pushed, rb_reordered>>
           ELSE /\ rb_pushed' = rb_pushed \cup {packet}
                /\ rb_buffer' = r.buf
                /\ rb_next_expected' = r.next_expected
                /\ rb_highest_received' = hi
                /\ rb_ready_messages' = r.ready
                /\ rb_status' = r.status
                /\ rb_reordered' = (rb_reordered \/ seq # rb_next_expected)
        /\ UNCHANGED rb_popped

\* ReceiveBuffer::pop_message
RB_pop_message ==
    /\ rb_status = "ok"
    /\ rb_ready_messages # <<>>
    /\ rb_popped' = Append(rb_popped, Head(rb_ready_messages))
    /\ rb_ready_messages' = Tail(rb_ready_messages)
    /\ UNCHANGED <<rb_buffer, rb_next_expected, rb_highest_received, rb_pushed,
                   rb_pushes, rb_reordered, rb_status>>

\* ------------------------------------------------------------------------
\* Connection (connection.rs); its send and receive buffers are the sb_ and
\* rb_ variables
\* ------------------------------------------------------------------------

ConnectionState == {"Init", "Connecting", "Connected", "Closing", "Closed"}

\* SrtOptions::default_capabilities: the fields set to true
default_capabilities ==
    {"tsbpd_sender", "tsbpd_receiver", "encryption", "too_late_packet_drop",
     "nak_report", "rexmit_flag"}

\* Connection::negotiate_options: field-wise &&
negotiate_options(options, peer) == options \cap peer

\* peer handshakes: udt.socket_id and SrtHandshake::peer_capabilities()
\* (<<>> is None)
PeerHandshakes ==
    [socket_id : {54321, 777},
     peer_capabilities : {<<>>, <<default_capabilities>>,
                          <<default_capabilities \ {"encryption"}>>,
                          <<{"tsbpd_sender", "stream_mode"}>>}]

\* the match arm of Connection::process_handshake that accepts the handshake
conn_accepts_in_any_state(state) == TRUE

conn_accepts_while_connected(state) == state \in {"Init", "Connecting", "Connected"}

conn_accepts_handshake(state) == state \in {"Init", "Connecting"}

\* the state check of Connection::send, recv and process_data_packet
conn_transfers_unless_closed(state) == state # "Closed"

conn_may_transfer(state) == state = "Connected"

InitConn ==
    /\ conn_state = "Init"
    /\ conn_remote_socket_id = <<>>
    /\ conn_options = default_capabilities
    /\ conn_stats = [packets_sent |-> 0, bytes_sent |-> 0,
                     packets_received |-> 0, bytes_received |-> 0]
    /\ conn_last = "new"
    /\ conn_result = "Ok"

\* Connection::create_handshake: builds the request from the connection's
\* fields and writes nothing
Conn_create_handshake ==
    /\ conn_last' = "create_handshake"
    /\ conn_result' = "Ok"
    /\ UNCHANGED <<conn_state, conn_remote_socket_id, conn_options, conn_stats>>

\* Connection::process_handshake
Conn_process_handshake(handshake) ==
    /\ conn_last' = "process_handshake"
    /\ IF conn_accepts_handshake(conn_state)
       THEN /\ conn_remote_socket_id' = <<handshake.socket_id>>
            /\ conn_options' =
                   IF handshake.peer_capabilities # <<>>
                   THEN negotiate_options(conn_options, handshake.peer_capabilities[1])
                   ELSE conn_options
            /\ conn_state' = "Connected"
            /\ conn_result' = "Ok"
       ELSE /\ conn_result' = "InvalidState"
            /\ UNCHANGED <<conn_state, conn_remote_socket_id, conn_options>>
    /\ UNCHANGED conn_stats

\* Connection::send
Conn_send(data) ==
    /\ conn_last' = "send"
    /\ IF ~conn_may_transfer(conn_state)
       THEN /\ conn_result' = "InvalidState"
            /\ UNCHANGED <<conn_stats, varsSend>>
       ELSE /\ SB_push(data)
            /\ IF sb_next_seq' = sb_next_seq
               THEN \* push returned Err(Full), propagated by `?`
                    /\ conn_result' = "Buffer"
                    /\ UNCHANGED conn_stats
               ELSE /\ conn_result' = "Ok"
                    /\ conn_stats' = [conn_stats EXCEPT
                           !.packets_sent = @ + 1,
                           !.bytes_sent = @ + Len(data)]
    /\ UNCHANGED <<conn_state, conn_remote_socket_id, conn_options>>

\* Connection::recv
Conn_recv ==
    /\ conn_last' = "recv"
    /\ IF ~conn_may_transfer(conn_state)
       THEN /\ conn_result' = "InvalidState"
            /\ UNCHANGED <<conn_stats, varsRecv>>
       ELSE /\ conn_result' = "Ok"
            /\ IF rb_ready_messages # <<>>
               THEN /\ RB_pop_message
                    /\ conn_stats' = [conn_stats EXCEPT
                           !.packets_received = @ + 1,
                           !.bytes_received = @ + Len(Head(rb_ready_messages))]
               ELSE UNCHANGED <<conn_stats, varsRecv>>
    /\ UNCHANGED <<conn_state, conn_remote_socket_id, conn_options>>

\* Connection::process_data_packet
Conn_process_data_packet(packet) ==
    /\ conn_last' = "process_data_packet"
    /\ IF ~conn_may_transfer(conn_state)
       THEN /\ conn_result' = "InvalidState"
            /\ UNCHANGED varsRecv
       ELSE /\ RB_push(packet)
            /\ conn_result' =
                   IF ~SeqLt(packet.seq, rb_next_expected)
                      /\ distance_to(rb_next_expected, packet.seq) >= rb_capacity
                   THEN "Buffer" ELSE "Ok"
    /\ UNCHANGED <<conn_state, conn_remote_socket_id, conn_options, conn_stats>>

\* a close that is rejected outside Connected and Connecting
Conn_close_rejecting ==
    /\ conn_last' = "close"
    /\ IF conn_state \in {"Connected", "Connecting"}
       THEN conn_state' = "Closed" /\ conn_result' = "Ok"
       ELSE conn_state' = conn_state /\ conn_result' = "InvalidState"
    /\ UNCHANGED <<conn_remote_socket_id, conn_options, conn_stats>>

\* Connection::close: set_state(Closing) then set_state(Closed), in any state
Conn_close ==
    /\ conn_last' = "close"
    /\ conn_result' = "Ok"
    /\ conn_state' = "Closed"
    /\ UNCHANGED <<conn_remote_socket_id, conn_options, conn_stats>>

\* ------------------------------------------------------------------------
\* LossList (loss.rs)
\* ------------------------------------------------------------------------

\* LossRange::contains
range_contains(range, seq) == SeqGe(seq, range.start) /\ SeqLe(seq, range.end)

\* the condition of LossRange::try_merge with adjacency left out
ranges_overlap(self, other) ==
    SeqLe(other.start, self.end) /\ SeqGe(other.end, self.start)

\* the condition of LossRange::try_merge: the ranges overlap or are adjacent
ranges_touch(self, other) ==
    SeqLe(other.start, SeqNext(self.end)) /\ SeqGe(other.end, SeqSub(self.start, 1))

\* the range LossRange::try_merge returns when the ranges touch
merge_ranges(self, other) ==
    [start |-> IF SeqLt(self.start, other.start) THEN self.start ELSE other.start,
     end   |-> IF SeqGt(self.end, other.end) THEN self.end ELSE other.end]

\* the for loop of LossList::add_range over the entries not yet visited
RECURSIVE ll_add_loop(_, _, _)
ll_add_loop(rest, merged, new_losses) ==
    IF rest = <<>> THEN Append(new_losses, merged)
    ELSE LET existing == Head(rest)
         IN  IF ranges_touch(merged.range, existing.range)
             THEN ll_add_loop(Tail(rest),
                      [merged EXCEPT
                          !.range = merge_ranges(merged.range, existing.range),
                          !.detected_at = IF existing.detected_at < @
                                          THEN existing.detected_at ELSE @,
                          !.nak_count = IF existing.nak_count > @
                                        THEN existing.nak_count ELSE @],
                      new_losses)
             ELSE IF SeqLt(existing.range.start, merged.range.start)
             THEN ll_add_loop(Tail(rest), merged, Append(new_losses, existing))
             ELSE ll_add_loop(Tail(rest), existing, Append(new_losses, merged))

\* LossList::add_range on a list value
ll_add_range(losses, range) ==
    ll_add_loop(losses,
                [range |-> range, detected_at |-> now, last_nak_sent |-> <<>>,
                 nak_count |-> 0],
                <<>>)

InitLoss ==
    /\ ll_losses = <<>>
    /\ ll_added = {}
    /\ ll_calls = 0

\* the sequence numbers reported lost: LossWindow consecutive ones from
\* MAX_SEQ_NUMBER - 2
LossSeqs == {SeqAdd(MAX_SEQ_NUMBER - 2, k) : k \in 0..(LossWindow - 1)}

\* position of a sequence number in that window
loss_pos(seq) == distance_to(MAX_SEQ_NUMBER - 2, seq)

LossRanges ==
    {r \in [start : LossSeqs, end : LossSeqs] : loss_pos(r.start) <= loss_pos(r.end)}

\* sequence numbers spread over the whole sequence space: 0 (in the window), a
\* third and two thirds of the way round, and the successor of the last
FarSeqs == {715827882, 1431655765, 1431655766}

AllLossSeqs == LossSeqs \cup FarSeqs

\* LossList::add_range
LL_add_range(range) ==
    /\ ll_calls < MaxLossCalls
    /\ ll_calls' = ll_calls + 1
    /\ ll_losses' = ll_add_range(ll_losses, range)
    /\ ll_added' = ll_added \cup {x \in AllLossSeqs : range_contains(range, x)}

\* LossList::add
LL_add(seq) == LL_add_range([start |-> seq, end |-> seq])

\* the sequence numbers given to the lists that are also removed from and
\* reported: NakWindow consecutive ones from MAX_SEQ_NUMBER - 1, across the wrap
NakSeqs == {x \in LossSeqs : loss_pos(x) >= 1 /\ loss_pos(x) <= NakWindow}

NakRanges == {r \in LossRanges : r.start \in NakSeqs /\ r.end \in NakSeqs}

\* no sequence number: pop_next on an empty list, calls without one
LL_None == -1

ll_call(op, seq, ranges) == [op |-> op, seq |-> seq, ranges |-> ranges]

\* a removal that drops the whole containing entry
ll_drop_entry(entry, seq) == <<>>

\* what LossList::remove keeps of an entry that contains seq
ll_split(entry, seq) ==
    IF entry.range.start = entry.range.end THEN <<>>
    ELSE IF seq = entry.range.start
    THEN <<[entry EXCEPT !.range = [start |-> SeqNext(entry.range.start),
                                    end |-> entry.range.end]]>>
    ELSE IF seq = entry.range.end
    THEN <<[entry EXCEPT !.range = [start |-> entry.range.start,
                                    end |-> SeqSub(entry.range.end, 1)]]>>
    ELSE <<[entry EXCEPT !.range = [start |-> entry.range.start,
                                    end |-> SeqSub(seq, 1)]],
           [entry EXCEPT !.range = [start |-> SeqNext(seq),
                                    end |-> entry.range.end]]>>

\* LossList::remove on a list value
RECURSIVE ll_remove(_, _)
ll_remove(losses, seq) ==
    IF losses = <<>> THEN <<>>
    ELSE LET entry == Head(losses)
         IN  (IF ~range_contains(entry.range, seq) THEN <<entry>>
              ELSE ll_split(entry, seq)) \o ll_remove(Tail(losses), seq)

\* should_send of LossList::get_nak_ranges
ll_should_send(entry, nak_interval, max_nak_count) ==
    \/ entry.last_nak_sent = <<>>
    \/ /\ now - entry.last_nak_sent[1] >= nak_interval
       /\ entry.nak_count < max_nak_count

\* the ranges LossList::get_nak_ranges returns
RECURSIVE ll_nak_ranges(_, _, _)
ll_nak_ranges(losses, nak_interval, max_nak_count) ==
    IF losses = <<>> THEN <<>>
    ELSE (IF ll_should_send(Head(losses), nak_interval, max_nak_count)
          THEN <<Head(losses).range>> ELSE <<>>)
         \o ll_nak_ranges(Tail(losses), nak_interval, max_nak_count)

\* the entries LossList::get_nak_ranges leaves
ll_nak_stamped(losses, nak_interval, max_nak_count) ==
    [i \in 1..Len(losses) |->
        IF ll_should_send(losses[i], nak_interval, max_nak_count)
        THEN [losses[i] EXCEPT !.last_nak_sent = <<now>>, !.nak_count = @ + 1]
        ELSE losses[i]]

\* the sequence numbers of the window inside one of the ranges
ll_in_ranges(ranges) ==
    {x \in AllLossSeqs : \E i \in 1..Len(ranges) : range_contains(ranges[i], x)}

\* LossList::new(max_nak_count, nak_interval)
InitLossNak ==
    /\ ll_max_nak_count \in 1..MaxNakCount
    /\ ll_nak_interval \in 0..MaxLossNakInterval
    /\ ll_last = ll_call("new", LL_None, <<>>)
    /\ ll_last_report = [x \in AllLossSeqs |-> LL_None]
    /\ ll_popped = <<>>

\* LossList::add_range, on a list that is also removed from and reported
LL_add_lost(range) ==
    /\ LL_add_range(range)
    /\ ll_last' = ll_call("add_range", LL_None, <<range>>)
    /\ ll_popped' = <<>>
    /\ UNCHANGED <<ll_max_nak_count, ll_nak_interval, ll_last_report>>

\* LossList::remove
LL_remove(seq) ==
    /\ ll_calls < MaxLossCalls
    /\ ll_calls' = ll_calls + 1
    /\ ll_losses' = ll_remove(ll_losses, seq)
    /\ ll_last' = ll_call("remove", seq, <<>>)
    /\ ll_last_report' = [ll_last_report EXCEPT ![seq] = LL_None]
    /\ ll_popped' = <<>>
    /\ UNCHANGED <<ll_added, ll_max_nak_count, ll_nak_interval>>

\* LossList::get_nak_ranges
LL_get_nak_ranges ==
    LET ranges == ll_nak_ranges(ll_losses, ll_nak_interval, ll_max_nak_count)
    IN  /\ ll_calls < MaxLossCalls
        /\ ll_calls' = ll_calls + 1
        /\ ll_losses' = ll_nak_stamped(ll_losses, ll_nak_interval, ll_max_nak_count)
        /\ ll_last' = ll_call("get_nak_ranges", LL_None, ranges)
        /\ ll_last_report' = [x \in AllLossSeqs |->
                                 IF x \in ll_in_ranges(ranges) THEN now
                                 ELSE ll_last_report[x]]
        /\ UNCHANGED <<ll_added, ll_max_nak_count, ll_nak_interval, ll_popped>>

\* the end of the last entry
sll_last_seq(losses) == losses[Len(losses)].range.end

\* self.inner.losses.first(): entry.range.start
sll_first_seq(losses) == losses[1].range.start

\* SenderLossList::pop_next: the start of the first entry, removed
SLL_pop_next ==
    /\ ll_calls < MaxLossCalls
    /\ ll_calls' = ll_calls + 1
    /\ IF ll_losses # <<>>
       THEN LET seq == sll_first_seq(ll_losses)
            IN  /\ ll_losses' = ll_remove(ll_losses, seq)
                /\ ll_last' = ll_call("pop_next", seq, <<>>)
                /\ ll_popped' = Append(ll_popped, seq)
       ELSE /\ ll_last' = ll_call("pop_next", LL_None, <<>>)
            /\ UNCHANGED <<ll_losses, ll_popped>>
    /\ UNCHANGED <<ll_added, ll_max_nak_count, ll_nak_interval, ll_last_report>>

\* ------------------------------------------------------------------------
\* BroadcastReceiver (srt-bonding/src/broadcast.rs)
\* ------------------------------------------------------------------------

\* HashMap::remove of one key
map_remove(map, key) == [k \in DOMAIN map \ {key} |-> map[k]]

\* a ready queue filled at the front
br_enqueue_front(ready_queue, packet) == <<packet>> \o ready_queue

\* ready_queue.push_back(info.packet)
br_enqueue(ready_queue, packet) == Append(ready_queue, packet)

\* the while loop of BroadcastReceiver::deliver_ready_packets
RECURSIVE br_deliver_loop(_, _, _)
br_deliver_loop(received, next_expected, ready_queue) ==
    IF next_expected \in DOMAIN received
    THEN br_deliver_loop(map_remove(received, next_expected),
                         SeqNext(next_expected),
                         br_enqueue(ready_queue, received[next_expected].packet))
    ELSE [received |-> received, next_expected |-> next_expected,
          ready_queue |-> ready_queue]

\* an already-delivered check by direct comparison of the raw values
br_delivered_direct(seq, next_expected) == seq < next_expected

\* seq.distance_to(next_expected) > 0
br_already_delivered(seq, next_expected) == distance_to(seq, next_expected) > 0

\* a buffered-duplicate check that never fires
br_never_buffered(received, seq) == FALSE

\* received.contains_key(&seq)
br_already_buffered(received, seq) == seq \in DOMAIN received

InitBcast ==
    /\ br_received = <<>>
    /\ br_next_expected = 0
    /\ br_ready_queue = <<>>
    /\ br_popped = <<>>
    /\ br_calls = {}

\* a receiver that has delivered and handed out every group sequence number
\* before MAX_SEQ_NUMBER - 1
InitBcastWrap ==
    /\ br_received = <<>>
    /\ br_next_expected = MAX_SEQ_NUMBER - 1
    /\ br_ready_queue = <<>>
    /\ br_popped = <<>>
    /\ br_calls = {}

\* BroadcastReceiver::on_packet_received
BR_on_packet_received(packet, member_id) ==
    LET seq == packet.seq
        stored == [k \in DOMAIN br_received \cup {seq} |->
                     IF k = seq THEN [packet |-> packet, member_id |-> member_id]
                     ELSE br_received[k]]
        r == br_deliver_loop(stored, br_next_expected, br_ready_queue)
        result == IF br_already_delivered(seq, br_next_expected) THEN "DuplicatePacket"
                  ELSE IF br_already_buffered(br_received, seq) THEN "DuplicatePacket"
                  ELSE IF Cardinality(DOMAIN br_received) >= BcastBufferSize
                  THEN "OkFalse"
                  ELSE "OkTrue"
    IN  /\ br_calls' = br_calls \cup
               {[seq |-> seq, member_id |-> member_id, result |-> result]}
        /\ IF result = "OkTrue"
           THEN /\ br_received' = r.received
                /\ br_next_expected' = r.next_expected
                /\ br_ready_queue' = r.ready_queue
           ELSE UNCHANGED <<br_received, br_next_expected, br_ready_queue>>
        /\ UNCHANGED br_popped

\* BroadcastReceiver::pop_ready_packet
BR_pop_ready_packet ==
    /\ br_ready_queue # <<>>
    /\ br_popped' = Append(br_popped, Head(br_ready_queue))
    /\ br_ready_queue' = Tail(br_ready_queue)
    /\ UNCHANGED <<br_received, br_next_expected, br_calls>>

\* ------------------------------------------------------------------------
\* SocketGroup (srt-bonding/src/group.rs)
\* ------------------------------------------------------------------------

MemberStatus == {"Pending", "Active", "Idle", "Broken"}

\* SocketGroup::new
InitGroup ==
    /\ grp_status = <<>>
    /\ grp_next_seq = 0

\* a thread between calls, with the result of its last call
grp_idle(result) == [op |-> "idle", at |-> "idle", arg |-> 0, result |-> result]

\* no thread is inside a call
InitGroupCalls ==
    /\ grp_members_lock = 0
    /\ grp_seq_lock = 0
    /\ grp_pc = [t \in 1..GroupThreads |-> grp_idle("none")]
    /\ grp_returned = <<>>
    /\ grp_calls = 0

\* a group that has issued every sequence number before MAX_SEQ_NUMBER - 1
InitGroupWrap ==
    /\ grp_status = <<>>
    /\ grp_next_seq = MAX_SEQ_NUMBER - 1

\* a write lock that never makes a caller wait
grp_lock_ignored(lock) == TRUE

\* RwLock::write is granted only when nobody holds the lock
grp_lock_free(lock) == lock = 0

\* a thread starts a call and waits for the lock
GRP_call(t, op, arg) ==
    /\ grp_pc[t].op = "idle"
    /\ grp_calls < MaxGroupCalls
    /\ grp_calls' = grp_calls + 1
    /\ grp_pc' = [grp_pc EXCEPT ![t] =
                      [op |-> op, at |-> "lock", arg |-> arg, result |-> "none"]]
    /\ UNCHANGED <<grp_status, grp_next_seq, grp_members_lock, grp_seq_lock,
                   grp_returned>>

\* SocketGroup::add_member: let mut members = self.members.write()
GRP_add_member_lock(t) ==
    /\ grp_pc[t].op = "add_member" /\ grp_pc[t].at = "lock"
    /\ grp_lock_free(grp_members_lock)
    /\ grp_members_lock' = t
    /\ grp_pc' = [grp_pc EXCEPT ![t].at = "check"]
    /\ UNCHANGED <<grp_status, grp_next_seq, grp_seq_lock, grp_returned, grp_calls>>

\* SocketGroup::add_member: if members.len() >= self.max_members
GRP_add_member_check(t) ==
    /\ grp_pc[t].op = "add_member" /\ grp_pc[t].at = "check"
    /\ IF Cardinality(DOMAIN grp_status) >= GroupMaxMembers
       THEN /\ grp_pc' = [grp_pc EXCEPT ![t] = grp_idle("GroupFull")]
            /\ grp_members_lock' = 0
       ELSE /\ grp_pc' = [grp_pc EXCEPT ![t].at = "insert"]
            /\ UNCHANGED grp_members_lock
    /\ UNCHANGED <<grp_status, grp_next_seq, grp_seq_lock, grp_returned, grp_calls>>

\* SocketGroup::add_member: members.insert(member_id, member); Ok(member_id)
GRP_add_member_insert(t) ==
    /\ grp_pc[t].op = "add_member" /\ grp_pc[t].at = "insert"
    /\ grp_status' = [id \in DOMAIN grp_status \cup {grp_pc[t].arg} |-> 
                         IF id = grp_pc[t].arg THEN "Pending" ELSE grp_status[id]]
    /\ grp_members_lock' = 0
    /\ grp_pc' = [grp_pc EXCEPT ![t] = grp_idle("Ok")]
    /\ UNCHANGED <<grp_next_seq, grp_seq_lock, grp_returned, grp_calls>>

\* SocketGroup::remove_member: let mut members = self.members.write()
GRP_remove_member_lock(t) ==
    /\ grp_pc[t].op = "remove_member" /\ grp_pc[t].at = "lock"
    /\ grp_lock_free(grp_members_lock)
    /\ grp_members_lock' = t
    /\ grp_pc' = [grp_pc EXCEPT ![t].at = "remove"]
    /\ UNCHANGED <<grp_status, grp_next_seq, grp_seq_lock, grp_returned, grp_calls>>

\* SocketGroup::remove_member: members.remove(&member_id)
GRP_remove_member_remove(t) ==
    /\ grp_pc[t].op = "remove_member" /\ grp_pc[t].at = "remove"
    /\ grp_status' = [id \in DOMAIN grp_status \ {grp_pc[t].arg} |-> grp_status[id]]
    /\ grp_members_lock' = 0
    /\ grp_pc' = [grp_pc EXCEPT ![t] =
                      grp_idle(IF grp_pc[t].arg \in DOMAIN grp_status
                               THEN "Ok" ELSE "MemberNotFound")]
    /\ UNCHANGED <<grp_next_seq, grp_seq_lock, grp_returned, grp_calls>>

\* SocketGroup::next_sequence: let mut seq = self.next_seq.write()
GRP_next_sequence_lock(t) ==
    /\ grp_pc[t].op = "next_sequence" /\ grp_pc[t].at = "lock"
    /\ grp_lock_free(grp_seq_lock)
    /\ grp_seq_lock' = t
    /\ grp_pc' = [grp_pc EXCEPT ![t].at = "read"]
    /\ UNCHANGED <<grp_status, grp_next_seq, grp_members_lock, grp_returned, grp_calls>>

\* SocketGroup::next_sequence: let current = *seq
GRP_next_sequence_read(t) ==
    /\ grp_pc[t].op = "next_sequence" /\ grp_pc[t].at = "read"
    /\ grp_pc' = [grp_pc EXCEPT ![t].at = "write", ![t].arg = grp_next_seq]
    /\ UNCHANGED <<grp_status, grp_next_seq, grp_members_lock, grp_seq_lock,
                   grp_returned, grp_calls>>

\* SocketGroup::next_sequence: *seq = seq.next(); current
GRP_next_sequence_write(t) ==
    /\ grp_pc[t].op = "next_sequence" /\ grp_pc[t].at = "write"
    /\ grp_next_seq' = SeqNext(grp_pc[t].arg)
    /\ grp_seq_lock' = 0
    /\ grp_returned' = Append(grp_returned, grp_pc[t].arg)
    /\ grp_pc' = [grp_pc EXCEPT ![t] = grp_idle("Ok")]
    /\ UNCHANGED <<grp_status, grp_members_lock, grp_calls>>

\* ------------------------------------------------------------------------
\* BackupBonding (srt-bonding/src/backup.rs)
\* ------------------------------------------------------------------------

\* Option::None for primary_id
BK_None == -1

\* MemberStats.failure_count: written only by BroadcastSender::send, so it
\* keeps its initial value for the members of a backup group
bk_failure_count(member_id) == 0

\* the state BackupBonding methods read and write, with the result so far
bk_state ==
    [status |-> grp_status, primary_id |-> bk_primary_id,
     backup_ids |-> bk_backup_ids, history |-> bk_failover_history,
     result |-> "Ok"]

\* BackupBonding::set_primary
bk_set_primary(st, member_id) ==
    IF member_id \notin DOMAIN st.status
    THEN [st EXCEPT !.result = "MemberNotFound"]
    ELSE LET demoted == IF st.primary_id # BK_None
                        THEN [st.status EXCEPT ![st.primary_id] = "Idle"]
                        ELSE st.status
         IN  [st EXCEPT !.status = [demoted EXCEPT ![member_id] = "Active"],
                        !.primary_id = member_id]

\* a failover history that records nothing
bk_record_nothing(history, event) == history

\* self.failover_history.write().push(event)
bk_record_event(history, event) == Append(history, event)

\* backups.iter().find(|id| status == Idle): index of the first Idle backup, 0 if none
bk_first_idle(status, backup_ids) ==
    LET idle == {i \in 1..Len(backup_ids) :
                    /\ backup_ids[i] \in DOMAIN status
                    /\ status[backup_ids[i]] = "Idle"}
    IN  IF idle = {} THEN 0 ELSE CHOOSE i \in idle : \A j \in idle : i <= j

\* BackupBonding::handle_primary_failure
bk_handle_primary_failure(st, failed_primary, reason) ==
    LET broken == [st EXCEPT !.status = [st.status EXCEPT ![failed_primary] = "Broken"]]
        found == bk_first_idle(broken.status, broken.backup_ids)
        new_primary == broken.backup_ids[found]
        promoted == bk_set_primary(broken, new_primary)
    IN  IF found = 0 THEN [broken EXCEPT !.result = "NoBackup"]
        ELSE IF promoted.result # "Ok" THEN promoted
        ELSE [promoted EXCEPT !.history =
                  bk_record_event(promoted.history,
                                  [old_primary |-> failed_primary,
                                   new_primary |-> new_primary,
                                   reason |-> reason])]

\* a retry whose failure is not reported
bk_retry_unreported(sent) == "Ok"

\* new_member.connection.send(data).map_err(|_| AllMembersFailed)
bk_retry_result(sent) == IF sent THEN "Ok" ELSE "AllMembersFailed"

\* the variables a BackupBonding call leaves as st
bk_commit(st) ==
    /\ grp_status' = st.status
    /\ bk_primary_id' = st.primary_id
    /\ bk_backup_ids' = st.backup_ids
    /\ bk_failover_history' = st.history

\* what one call did: outcome of each connection.send attempted, failovers
\* started, members involved
bk_call(op, arg, result, sends, failovers, old_primary, backups_before) ==
    [op |-> op, arg |-> arg, result |-> result, sends |-> sends,
     failovers |-> failovers, old_primary |-> old_primary,
     backups_before |-> backups_before]

\* BackupBonding::new on a group whose members 1..BackupMembers were added
InitBackup ==
    /\ bk_primary_id = BK_None
    /\ bk_backup_ids = <<>>
    /\ bk_failover_history = <<>>
    /\ bk_last_health_check = 0
    /\ bk_failure_threshold \in 0..MaxFailureThreshold
    /\ bk_last = bk_call("new", 0, "Ok", <<>>, 0, BK_None, <<>>)
    /\ bk_ops = 0

\* the group after add_member for members 1..BackupMembers
InitBackupGroup ==
    /\ grp_status = [id \in 1..BackupMembers |-> "Pending"]
    /\ grp_next_seq = 0

\* BackupBonding::set_primary
BK_set_primary(member_id) ==
    LET st == bk_set_primary(bk_state, member_id)
    IN  /\ bk_ops < MaxBackupOps
        /\ bk_ops' = bk_ops + 1
        /\ bk_commit(st)
        /\ bk_last' = bk_call("set_primary", member_id, st.result, <<>>, 0,
                              bk_primary_id, bk_backup_ids)
        /\ UNCHANGED <<grp_next_seq, bk_last_health_check, bk_failure_threshold>>

\* BackupBonding::add_backup
BK_add_backup(member_id) ==
    LET found == member_id \in DOMAIN grp_status
        listed == \E i \in 1..Len(bk_backup_ids) : bk_backup_ids[i] = member_id
    IN  /\ bk_ops < MaxBackupOps
        /\ bk_ops' = bk_ops + 1
        /\ IF found
           THEN /\ grp_status' = [grp_status EXCEPT ![member_id] = "Idle"]
                /\ bk_backup_ids' = IF listed THEN bk_backup_ids
                                    ELSE Append(bk_backup_ids, member_id)
           ELSE UNCHANGED <<grp_status, bk_backup_ids>>
        /\ bk_last' = bk_call("add_backup", member_id,
                              IF found THEN "Ok" ELSE "MemberNotFound", <<>>, 0,
                              bk_primary_id, bk_backup_ids)
        /\ UNCHANGED <<grp_next_seq, bk_primary_id, bk_failover_history,
                       bk_last_health_check, bk_failure_threshold>>

\* BackupBonding::send; sent and resent are the outcomes of connection.send on
\* the primary and on the member retried
BK_send(sent, resent) ==
    LET failed == bk_handle_primary_failure(bk_state, bk_primary_id, "PrimaryFailed")
        result == IF bk_primary_id = BK_None THEN "NoPrimary"
                  ELSE IF sent THEN "Ok"
                  ELSE IF failed.result # "Ok" THEN failed.result
                  ELSE bk_retry_result(resent)
        sends == IF bk_primary_id = BK_None THEN <<>>
                 ELSE IF sent \/ failed.result # "Ok" THEN <<sent>>
                 ELSE <<sent, resent>>
        failovers == IF bk_primary_id = BK_None \/ sent THEN 0 ELSE 1
    IN  /\ bk_ops < MaxBackupOps
        /\ bk_ops' = bk_ops + 1
        /\ IF failovers = 1 THEN bk_commit(failed)
           ELSE UNCHANGED <<grp_status, bk_primary_id, bk_backup_ids,
                            bk_failover_history>>
        /\ grp_next_seq' = IF result = "Ok" THEN SeqNext(grp_next_seq)
                           ELSE grp_next_seq
        /\ bk_last' = bk_call("send", 0, result, sends, failovers,
                              bk_primary_id, bk_backup_ids)
        /\ UNCHANGED <<bk_last_health_check, bk_failure_threshold>>

\* BackupBonding::health_check
BK_health_check ==
    LET too_soon == now - bk_last_health_check < HealthInterval
        degraded == bk_failure_count(bk_primary_id) >= bk_failure_threshold
        inactive == grp_status[bk_primary_id] # "Active"
        failed == bk_handle_primary_failure(bk_state, bk_primary_id,
                      IF degraded THEN "QualityDegraded" ELSE "PrimaryFailed")
        failovers == IF too_soon \/ bk_primary_id = BK_None THEN 0
                     ELSE IF degraded \/ inactive THEN 1 ELSE 0
        result == IF too_soon THEN "OkTrue"
                  ELSE IF bk_primary_id = BK_None THEN "OkFalse"
                  ELSE IF failovers = 0 THEN "OkTrue"
                  ELSE IF failed.result = "Ok" THEN "OkFalse"
                  ELSE failed.result
    IN  /\ bk_ops < MaxBackupOps
        /\ bk_ops' = bk_ops + 1
        /\ bk_last_health_check' = IF too_soon THEN bk_last_health_check ELSE now
        /\ IF failovers = 1 THEN bk_commit(failed)
           ELSE UNCHANGED <<grp_status, bk_primary_id, bk_backup_ids,
                            bk_failover_history>>
        /\ bk_last' = bk_call("health_check", 0, result, <<>>, failovers,
                              bk_primary_id, bk_backup_ids)
        /\ UNCHANGED <<grp_next_seq, bk_failure_threshold>>

\* BackupBonding::manual_failover
BK_manual_failover(new_primary_id) ==
    LET listed == \E i \in 1..Len(bk_backup_ids) : bk_backup_ids[i] = new_primary_id
        demoted == [bk_state EXCEPT
                       !.status = [bk_state.status EXCEPT ![bk_primary_id] = "Idle"],
                       !.backup_ids = Append(bk_backup_ids, bk_primary_id)]
        promoted == bk_set_primary(demoted, new_primary_id)
        done == [promoted EXCEPT
                    !.backup_ids = SelectSeq(promoted.backup_ids,
                                             LAMBDA id : id # new_primary_id),
                    !.history = bk_record_event(promoted.history,
                                    [old_primary |-> bk_primary_id,
                                     new_primary |-> new_primary_id,
                                     reason |-> "Manual"])]
        result == IF bk_primary_id = BK_None THEN "NoPrimary"
                  ELSE IF ~listed THEN "MemberNotFound"
                  ELSE promoted.result
    IN  /\ bk_ops < MaxBackupOps
        /\ bk_ops' = bk_ops + 1
        /\ IF bk_primary_id = BK_None \/ ~listed
           THEN UNCHANGED <<grp_status, bk_primary_id, bk_backup_ids,
                            bk_failover_history>>
           ELSE IF promoted.result # "Ok" THEN bk_commit(promoted)
           ELSE bk_commit(done)
        /\ bk_last' = bk_call("manual_failover", new_primary_id, result, <<>>, 0,
                              bk_primary_id, bk_backup_ids)
        /\ UNCHANGED <<grp_next_seq, bk_last_health_check, bk_failure_threshold>>

\* ------------------------------------------------------------------------
\* LoadBalancer (srt-bonding/src/balancing.rs), RoundRobin algorithm
\* ------------------------------------------------------------------------

\* PathCapacity::new, with the fields send and mark_path_failed write
PathCapacity_new == [loss_rate |-> 0, packets_in_flight |-> 0]

\* SocketGroup::get_active_members: the Active members, in map iteration order
lb_active_members(order, status) ==
    SelectSeq(order, LAMBDA id : status[id] = "Active")

\* LoadBalancer::update_capacities: entry(id).or_insert_with(PathCapacity::new)
lb_update_capacities(capacities, members) ==
    LET ids == {members[i] : i \in 1..Len(members)}
    IN  [id \in DOMAIN capacities \cup ids |->
            IF id \in DOMAIN capacities THEN capacities[id] ELSE PathCapacity_new]

\* RoundRobin: COUNTER.fetch_add(1) % members.len()
lb_round_robin_index(counter, member_count) == counter % member_count

\* a failed path taken out of service without the failure marks
lb_mark_path_idle(st, path_id) ==
    [st EXCEPT !.status[path_id] = "Idle"]

\* LoadBalancer::mark_path_failed
lb_mark_path_failed(st, path_id) ==
    [st EXCEPT !.capacities[path_id].loss_rate = 1,
               !.status[path_id] = "Broken"]

\* LoadBalancer::send, with the recursion on a failed path; fails is the set
\* of members whose connection.send fails
RECURSIVE lb_send(_, _, _)
lb_send(st, order, fails) ==
    LET members == lb_active_members(order, st.status)
        capacities == lb_update_capacities(st.capacities, members)
        index == lb_round_robin_index(st.COUNTER, Len(members))
        selected_path == members[index + 1]
        tried == [st EXCEPT !.capacities = capacities,
                            !.COUNTER = st.COUNTER + 1,
                            !.next_seq = SeqNext(st.next_seq),
                            !.tried = Append(st.tried, selected_path)]
    IN  IF members = <<>> THEN [st EXCEPT !.result = "NoActiveMembers"]
        ELSE IF selected_path \notin fails
        THEN [tried EXCEPT
                 !.capacities[selected_path].packets_in_flight = @ + 1,
                 !.result = "Ok"]
        ELSE lb_send(lb_mark_path_failed(tried, selected_path), order, fails)

\* orders in which a map of the members 1..LbMembers may iterate
LbOrders ==
    {o \in [1..LbMembers -> 1..LbMembers] :
        \A i, j \in 1..LbMembers : o[i] = o[j] => i = j}

\* LoadBalancer::new for each balancer, on its own group whose members were
\* added and set Active
InitBalancer ==
    /\ lb_COUNTER = 0
    /\ lb_order \in [1..LbBalancers -> LbOrders]
    /\ lb_status = [b \in 1..LbBalancers |-> [id \in 1..LbMembers |-> "Active"]]
    /\ lb_capacities = [b \in 1..LbBalancers |-> <<>>]
    /\ lb_next_seq = [b \in 1..LbBalancers |-> 0]
    /\ lb_selected = [b \in 1..LbBalancers |-> <<>>]
    /\ lb_last = [balancer |-> 0, tried |-> <<>>, result |-> "none"]
    /\ lb_sends = 0

\* LoadBalancer::send on balancer b
LB_send(b, fails) ==
    LET st == lb_send([COUNTER |-> lb_COUNTER, status |-> lb_status[b],
                       capacities |-> lb_capacities[b],
                       next_seq |-> lb_next_seq[b], tried |-> <<>>,
                       result |-> "none"],
                      lb_order[b], fails)
    IN  /\ lb_sends < MaxLbSends
        /\ lb_sends' = lb_sends + 1
        /\ lb_COUNTER' = st.COUNTER
        /\ lb_status' = [lb_status EXCEPT ![b] = st.status]
        /\ lb_capacities' = [lb_capacities EXCEPT ![b] = st.capacities]
        /\ lb_next_seq' = [lb_next_seq EXCEPT ![b] = st.next_seq]
        /\ lb_selected' = IF st.result = "Ok"
                          THEN [lb_selected EXCEPT
                                   ![b] = Append(@, st.tried[Len(st.tried)])]
                          ELSE lb_selected
        /\ lb_last' = [balancer |-> b, tried |-> st.tried, result |-> st.result]
        /\ UNCHANGED lb_order

\* ------------------------------------------------------------------------
\* BroadcastSender (srt-bonding/src/broadcast.rs)
\* ------------------------------------------------------------------------

\* the failure count above which BroadcastSender::send marks a member Broken
BS_FAILURE_LIMIT == 3

\* a result that reports any failed member as a failure of all paths
bs_result_any_failure(success_count, failed_count) ==
    IF failed_count > 0 THEN "AllPathsFailed" ELSE "Ok"

\* if success_count == 0 { return Err(AllPathsFailed) } ... Ok(..)
bs_send_result(success_count, failed_count) ==
    IF success_count = 0 THEN "AllPathsFailed" ELSE "Ok"

\* the group after add_member and update_member_status(Active) for each member
InitBsend ==
    /\ bs_status = [id \in 1..BsMembers |-> "Active"]
    /\ bs_failure_count = [id \in 1..BsMembers |-> 0]
    /\ bs_next_seq = 0
    /\ bs_streak = [id \in 1..BsMembers |-> 0]
    /\ bs_longest = [id \in 1..BsMembers |-> 0]
    /\ bs_last = [attempted |-> {}, failed |-> {}, result |-> "none"]
    /\ bs_sends = 0

\* BroadcastSender::send; fails is the set of members whose connection.send fails
BS_send(fails) ==
    LET members == {id \in 1..BsMembers : bs_status[id] = "Active"}
        failed == members \cap fails
        success_count == Cardinality(members \ failed)
        counted == [id \in 1..BsMembers |->
                       IF id \in failed THEN bs_failure_count[id] + 1
                       ELSE bs_failure_count[id]]
        streak == [id \in 1..BsMembers |->
                      IF id \in failed THEN bs_streak[id] + 1
                      ELSE IF id \in members THEN 0 ELSE bs_streak[id]]
    IN  /\ bs_sends < MaxBsSends
        /\ bs_sends' = bs_sends + 1
        /\ IF members = {}
           THEN /\ bs_last' = [attempted |-> {}, failed |-> {},
                               result |-> "NoActiveMembers"]
                /\ UNCHANGED <<bs_status, bs_failure_count, bs_next_seq,
                               bs_streak, bs_longest>>
           ELSE /\ bs_next_seq' = SeqNext(bs_next_seq)
                /\ bs_failure_count' = counted
                /\ bs_status' = [id \in 1..BsMembers |->
                                    IF id \in failed /\ counted[id] > BS_FAILURE_LIMIT
                                    THEN "Broken" ELSE bs_status[id]]
                /\ bs_streak' = streak
                /\ bs_longest' = [id \in 1..BsMembers |->
                                     IF streak[id] > bs_longest[id]
                                     THEN streak[id] ELSE bs_longest[id]]
                /\ bs_last' = [attempted |-> members, failed |-> failed,
                               result |-> bs_send_result(success_count,
                                                         Cardinality(failed))]

\* ------------------------------------------------------------------------
\* CongestionController (srt-protocol/src/congestion.rs)
\* ------------------------------------------------------------------------

\* last_congestion_event: None
CC_None == -1

\* let initial_cwnd = 16
CC_INITIAL_CWND == 16

\* min_congestion_interval: Duration::from_secs(1), one clock tick
CC_MIN_CONGESTION_INTERVAL == 1

\* the floor of the congestion window after a loss
CC_MIN_CWND == 2

cc_min(a, b) == IF a < b THEN a ELSE b

cc_max(a, b) == IF a > b THEN a ELSE b

cc_saturating_sub(a, b) == IF a > b THEN a - b ELSE 0

\* (acked as f64 / cwnd as f64).ceil() as u32, then .max(1); a division by a
\* zero window is infinite and saturates, which the cap at flow_window absorbs
cc_increment(acked_packets, cwnd) ==
    IF cwnd = 0
    THEN (IF acked_packets = 0 THEN 1 ELSE CC_INITIAL_CWND + MaxFlowWindow + 1)
    ELSE cc_max((acked_packets + cwnd - 1) \div cwnd, 1)

\* a window after a loss that is only halved
cc_halved_window(cwnd) == cwnd \div 2

\* self.ssthresh = cwnd / 2; self.congestion_window = self.ssthresh.max(2)
cc_reduced_window(cwnd) == cc_max(cwnd \div 2, CC_MIN_CWND)

\* CongestionController::new(_, _, flow_window)
InitCong ==
    /\ cc_flow_window \in 0..MaxFlowWindow
    /\ cc_congestion_window = CC_INITIAL_CWND
    /\ cc_ssthresh = cc_flow_window \div 2
    /\ cc_slow_start = TRUE
    /\ cc_packets_in_flight = 0
    /\ cc_last_congestion_event = CC_None
    /\ cc_last = [op |-> "new", reduced |-> FALSE, cwnd |-> CC_INITIAL_CWND]
    /\ cc_calls = 0

cc_called(op, reduced) ==
    /\ cc_calls < MaxCcCalls
    /\ cc_calls' = cc_calls + 1
    /\ cc_last' = [op |-> op, reduced |-> reduced, cwnd |-> cc_congestion_window]

CC_on_packet_sent ==
    /\ cc_called("on_packet_sent", FALSE)
    /\ cc_packets_in_flight' = cc_packets_in_flight + 1
    /\ UNCHANGED <<cc_flow_window, cc_congestion_window, cc_ssthresh,
                   cc_slow_start, cc_last_congestion_event>>

CC_on_ack(acked_packets) ==
    LET grown == IF cc_slow_start
                 THEN cc_congestion_window + acked_packets
                 ELSE cc_congestion_window
                          + cc_increment(acked_packets, cc_congestion_window)
    IN  /\ cc_called("on_ack", FALSE)
        /\ cc_packets_in_flight' =
               cc_saturating_sub(cc_packets_in_flight, acked_packets)
        /\ cc_slow_start' = (cc_slow_start /\ ~(grown >= cc_ssthresh))
        /\ cc_congestion_window' = cc_min(grown, cc_flow_window)
        /\ UNCHANGED <<cc_flow_window, cc_ssthresh, cc_last_congestion_event>>

CC_on_loss(lost_packets) ==
    LET should_reduce ==
            \/ cc_last_congestion_event = CC_None
            \/ now - cc_last_congestion_event >= CC_MIN_CONGESTION_INTERVAL
    IN  /\ cc_called("on_loss", should_reduce)
        /\ IF should_reduce
           THEN /\ cc_ssthresh' = cc_congestion_window \div 2
                /\ cc_congestion_window' = cc_reduced_window(cc_congestion_window)
                /\ cc_slow_start' = FALSE
                /\ cc_last_congestion_event' = now
           ELSE UNCHANGED <<cc_ssthresh, cc_congestion_window, cc_slow_start,
                            cc_last_congestion_event>>
        /\ cc_packets_in_flight' =
               cc_saturating_sub(cc_packets_in_flight, lost_packets)
        /\ UNCHANGED cc_flow_window

CC_update_flow_window(new_flow_window) ==
    /\ cc_called("update_flow_window", FALSE)
    /\ cc_flow_window' = new_flow_window
    /\ cc_congestion_window' = cc_min(cc_congestion_window, new_flow_window)
    /\ UNCHANGED <<cc_ssthresh, cc_slow_start, cc_packets_in_flight,
                   cc_last_congestion_event>>

CC_reset ==
    /\ cc_called("reset", FALSE)
    /\ cc_congestion_window' = CC_INITIAL_CWND
    /\ cc_ssthresh' = cc_flow_window \div 2
    /\ cc_slow_start' = TRUE
    /\ cc_packets_in_flight' = 0
    /\ cc_last_congestion_event' = CC_None
    /\ UNCHANGED cc_flow_window

\* ------------------------------------------------------------------------
\* NakGenerator (srt-protocol/src/ack.rs)
\* ------------------------------------------------------------------------

\* a generator that never throttles
nk_always_can_send(last_nak_time, min_nak_interval) == TRUE

\* self.last_nak_time.elapsed() >= self.min_nak_interval
nk_can_send_nak(last_nak_time, min_nak_interval) ==
    now - last_nak_time >= min_nak_interval

\* NakGenerator::new(min_nak_interval), created at time 0
InitNak ==
    /\ nk_min_nak_interval \in 0..MaxNakInterval
    /\ nk_last_nak_time = 0 - nk_min_nak_interval
    /\ nk_last = [ranges |-> 0, at |-> 0, result |-> "none"]
    /\ nk_produced_at = <<>>
    /\ nk_calls = 0

\* NakGenerator::generate_nak; loss_ranges is the number of ranges in nak_info
NK_generate_nak(loss_ranges) ==
    /\ nk_calls < MaxNakCalls
    /\ nk_calls' = nk_calls + 1
    /\ UNCHANGED nk_min_nak_interval
    /\ IF ~nk_can_send_nak(nk_last_nak_time, nk_min_nak_interval) \/ loss_ranges = 0
       THEN /\ nk_last' = [ranges |-> loss_ranges, at |-> now, result |-> "None"]
            /\ UNCHANGED <<nk_last_nak_time, nk_produced_at>>
       ELSE /\ nk_last_nak_time' = now
            /\ nk_produced_at' = Append(nk_produced_at, now)
            /\ nk_last' = [ranges |-> loss_ranges, at |-> now, result |-> "Some"]

\* ------------------------------------------------------------------------
\* AlignmentBuffer (srt-bonding/src/alignment.rs)
\* ------------------------------------------------------------------------

\* the sequence numbers given to the buffer: AbWindow consecutive ones from
\* MAX_SEQ_NUMBER - 1, across the wrap
AbSeqs == {SeqAdd(MAX_SEQ_NUMBER - 1, k) : k \in 0..(AbWindow - 1)}

\* no sequence number: calls without one
AB_None == -1

ab_call(op, seq, result, returned) ==
    [op |-> op, seq |-> seq, result |-> result, returned |-> returned]

\* a sweep that removes nothing
ab_keep_all(buffer) == buffer

\* AlignmentBuffer::cleanup_old_packets: retain the entries not older than
\* max_packet_age
ab_cleanup_old_packets(buffer) ==
    LET kept == {x \in DOMAIN buffer : ~(now - buffer[x].received_at > AbMaxAge)}
    IN  [x \in kept |-> buffer[x]]

\* a delivery that leaves next_expected where it is
ab_stay(seq) == seq

\* self.next_expected = self.next_expected.next()
ab_advance(seq) == SeqNext(seq)

\* the while loop of AlignmentBuffer::pop_ready_packets: the sequence numbers
\* removed, in the order removed
RECURSIVE ab_ready_run(_, _)
ab_ready_run(buffer, next_expected) ==
    IF next_expected \in DOMAIN buffer
    THEN <<next_expected>>
         \o ab_ready_run(map_remove(buffer, next_expected), ab_advance(next_expected))
    ELSE <<>>

\* next_expected after the sequence numbers of a run were removed
RECURSIVE ab_after_run(_, _)
ab_after_run(next_expected, n) ==
    IF n = 0 THEN next_expected ELSE ab_after_run(ab_advance(next_expected), n - 1)

\* a highest key that follows the wrap: the key no other key is after
ab_highest_wrap_aware(keys) == CHOOSE k \in keys : \A x \in keys : SeqGe(k, x)

\* self.buffer.iter().next_back(): the last key in the derived (numeric) order
ab_highest_key(keys) == CHOOSE k \in keys : \A x \in keys : x <= k

\* the while loop of AlignmentBuffer::get_missing_sequences
RECURSIVE ab_missing_loop(_, _, _, _)
ab_missing_loop(buffer, current, highest, missing) ==
    IF SeqLt(current, highest)
    THEN ab_missing_loop(buffer, SeqNext(current), highest,
                         IF current \notin DOMAIN buffer
                         THEN Append(missing, current) ELSE missing)
    ELSE missing

\* AlignmentBuffer::get_missing_sequences
ab_get_missing_sequences(buffer, next_expected) ==
    IF DOMAIN buffer = {} THEN <<>>
    ELSE ab_missing_loop(buffer, next_expected, ab_highest_key(DOMAIN buffer), <<>>)

\* AlignmentBuffer::new(AbBufferSize, AbMaxAge)
InitAlign ==
    /\ ab_buffer = <<>>
    /\ ab_next_expected = 0
    /\ ab_last = ab_call("new", AB_None, "none", <<>>)
    /\ ab_start = 0
    /\ ab_delivered = <<>>
    /\ ab_calls = 0

ab_called ==
    /\ ab_calls < MaxAbCalls
    /\ ab_calls' = ab_calls + 1

\* AlignmentBuffer::add_packet
AB_add_packet(seq) ==
    LET full  == Cardinality(DOMAIN ab_buffer) >= AbBufferSize
        swept == IF full THEN ab_cleanup_old_packets(ab_buffer) ELSE ab_buffer
    IN  /\ ab_called
        /\ UNCHANGED <<ab_next_expected, ab_start, ab_delivered>>
        /\ IF SeqLt(seq, ab_next_expected)
           THEN /\ ab_last' = ab_call("add_packet", seq, "TooOld", <<>>)
                /\ UNCHANGED ab_buffer
           ELSE IF Cardinality(DOMAIN swept) >= AbBufferSize
           THEN /\ ab_last' = ab_call("add_packet", seq, "BufferFull", <<>>)
                /\ ab_buffer' = swept
           ELSE IF seq \in DOMAIN swept
           THEN /\ ab_last' = ab_call("add_packet", seq, "Duplicate", <<>>)
                /\ ab_buffer' = [swept EXCEPT ![seq].duplicates = @ + 1]
           ELSE /\ ab_last' = ab_call("add_packet", seq, "New", <<>>)
                /\ ab_buffer' = [x \in DOMAIN swept \cup {seq} |->
                                    IF x = seq
                                    THEN [received_at |-> now, duplicates |-> 0]
                                    ELSE swept[x]]

\* AlignmentBuffer::pop_next
AB_pop_next ==
    /\ ab_called
    /\ UNCHANGED ab_start
    /\ IF ab_next_expected \in DOMAIN ab_buffer
       THEN /\ ab_buffer' = map_remove(ab_buffer, ab_next_expected)
            /\ ab_next_expected' = ab_advance(ab_next_expected)
            /\ ab_delivered' = Append(ab_delivered, ab_next_expected)
            /\ ab_last' = ab_call("pop_next", AB_None, "Some", <<ab_next_expected>>)
       ELSE /\ ab_last' = ab_call("pop_next", AB_None, "None", <<>>)
            /\ UNCHANGED <<ab_buffer, ab_next_expected, ab_delivered>>

\* AlignmentBuffer::pop_ready_packets
AB_pop_ready_packets ==
    LET ready == ab_ready_run(ab_buffer, ab_next_expected)
    IN  /\ ab_called
        /\ UNCHANGED ab_start
        /\ ab_buffer' = [x \in DOMAIN ab_buffer \ {ready[i] : i \in 1..Len(ready)} |->
                            ab_buffer[x]]
        /\ ab_next_expected' = ab_after_run(ab_next_expected, Len(ready))
        /\ ab_delivered' = ab_delivered \o ready
        /\ ab_last' = ab_call("pop_ready_packets", AB_None, "Ok", ready)

\* AlignmentBuffer::set_next_expected
AB_set_next_expected(seq) ==
    /\ ab_called
    /\ ab_next_expected' = seq
    /\ ab_start' = seq
    /\ ab_delivered' = <<>>
    /\ ab_last' = ab_call("set_next_expected", seq, "Ok", <<>>)
    /\ UNCHANGED ab_buffer

\* ------------------------------------------------------------------------
\* SeqNumber arithmetic (srt-protocol/src/sequence.rs)
\* ------------------------------------------------------------------------

\* the sequence numbers tried: those within SqNear of 0, of half the space
\* (2^30 - 1 and 2^30) and of MAX_SEQ_NUMBER
SqValues ==
    (0..SqNear)
    \cup {HALF_SPACE - d : d \in 0..SqNear}
    \cup {(HALF_SPACE + 1) + d : d \in 0..SqNear}
    \cup {MAX_SEQ_NUMBER - d : d \in 0..SqNear}

\* the steps tried: the smallest ones and the largest ones below 2^30
SqSteps == (0..SqNear) \cup {HALF_SPACE - d : d \in 0..SqNear}

\* SeqNumber::new(a), SeqNumber::new(b) and a step
InitSeq ==
    /\ sq_a \in SqValues
    /\ sq_b \in SqValues
    /\ sq_k \in SqSteps
    /\ sq_op = "none"
    /\ sq_out = <<>>

InitSeqIdle ==
    /\ sq_a = 0
    /\ sq_b = 0
    /\ sq_k = 0
    /\ sq_op = "none"
    /\ sq_out = <<>>

\* a.distance_to(b) and b.distance_to(a)
SQ_distance_to ==
    /\ sq_op' = "distance_to"
    /\ sq_out' = <<distance_to(sq_a, sq_b), distance_to(sq_b, sq_a)>>
    /\ UNCHANGED <<sq_a, sq_b, sq_k>>

\* a.next()
SQ_next ==
    /\ sq_op' = "next"
    /\ sq_out' = <<SeqNext(sq_a)>>
    /\ UNCHANGED <<sq_a, sq_b, sq_k>>

\* a + k and (a + k) - k
SQ_add_sub ==
    /\ sq_op' = "add_sub"
    /\ sq_out' = <<SeqAdd(sq_a, sq_k), SeqSub(SeqAdd(sq_a, sq_k), sq_k)>>
    /\ UNCHANGED <<sq_a, sq_b, sq_k>>

\* ------------------------------------------------------------------------
\* BroadcastReceiver called from several receive threads
\* (srt-bonding/src/broadcast.rs)
\* ------------------------------------------------------------------------

BrtThreadIds == 1..BrtThreads

InitBrt ==
    /\ brt_pc = [t \in BrtThreadIds |-> "idle"]
    /\ brt_packet = [t \in BrtThreadIds |-> [seq |-> 0, payload |-> <<0>>]]
    /\ brt_seen = [t \in BrtThreadIds |-> 0]
    /\ brt_received_lock = 0
    /\ brt_next_expected_lock = 0

\* a delivery that starts at the next_expected the thread read at entry
brt_deliver_from_seen(seen, next_expected) == seen

\* deliver_ready_packets works on the value behind next_expected.write()
brt_deliver_from(seen, next_expected) == next_expected

\* on_packet_received returns: the guards of the call are dropped
brt_return(t, result) ==
    /\ br_calls' = br_calls \cup
           {[seq |-> brt_packet[t].seq, member_id |-> t, result |-> result]}
    /\ brt_pc' = [brt_pc EXCEPT ![t] = "idle"]
    /\ brt_received_lock' = 0
    /\ brt_next_expected_lock' = 0

\* a receive thread enters on_packet_received
BRT_call(t, packet) ==
    /\ brt_pc[t] = "idle"
    /\ brt_pc' = [brt_pc EXCEPT ![t] = "read_next_expected"]
    /\ brt_packet' = [brt_packet EXCEPT ![t] = packet]
    /\ UNCHANGED <<varsBcast, brt_seen, brt_received_lock, brt_next_expected_lock>>

\* let next_expected = *self.next_expected.read(); and the check against it
BRT_read_next_expected(t) ==
    /\ brt_pc[t] = "read_next_expected"
    /\ brt_next_expected_lock = 0
    /\ brt_seen' = [brt_seen EXCEPT ![t] = br_next_expected]
    /\ IF br_already_delivered(brt_packet[t].seq, br_next_expected)
       THEN brt_return(t, "DuplicatePacket")
       ELSE /\ brt_pc' = [brt_pc EXCEPT ![t] = "lock_received"]
            /\ UNCHANGED <<br_calls, brt_received_lock, brt_next_expected_lock>>
    /\ UNCHANGED <<br_received, br_next_expected, br_ready_queue, br_popped,
                   brt_packet>>

\* let mut received = self.received.write();
BRT_lock_received(t) ==
    /\ brt_pc[t] = "lock_received"
    /\ brt_received_lock = 0
    /\ brt_received_lock' = t
    /\ brt_pc' = [brt_pc EXCEPT ![t] = "insert"]
    /\ UNCHANGED <<varsBcast, brt_packet, brt_seen, brt_next_expected_lock>>

\* the duplicate check, the size check and received.insert
BRT_insert(t) ==
    LET packet == brt_packet[t]
    IN  /\ brt_pc[t] = "insert"
        /\ IF br_already_buffered(br_received, packet.seq)
           THEN brt_return(t, "DuplicatePacket") /\ UNCHANGED br_received
           ELSE IF Cardinality(DOMAIN br_received) >= BcastBufferSize
           THEN brt_return(t, "OkFalse") /\ UNCHANGED br_received
           ELSE /\ br_received' =
                       [k \in DOMAIN br_received \cup {packet.seq} |->
                           IF k = packet.seq
                           THEN [packet |-> packet, member_id |-> t]
                           ELSE br_received[k]]
                /\ brt_pc' = [brt_pc EXCEPT ![t] = "lock_next_expected"]
                /\ UNCHANGED <<br_calls, brt_received_lock, brt_next_expected_lock>>
        /\ UNCHANGED <<br_next_expected, br_ready_queue, br_popped, brt_packet,
                       brt_seen>>

\* deliver_ready_packets: let mut next_expected = self.next_expected.write();
BRT_lock_next_expected(t) ==
    /\ brt_pc[t] = "lock_next_expected"
    /\ brt_next_expected_lock = 0
    /\ brt_next_expected_lock' = t
    /\ brt_pc' = [brt_pc EXCEPT ![t] = "deliver"]
    /\ UNCHANGED <<varsBcast, brt_packet, brt_seen, brt_received_lock>>

\* deliver_ready_packets: ready_queue.write() and the while loop; then Ok(true)
BRT_deliver(t) ==
    LET r == br_deliver_loop(br_received,
                             brt_deliver_from(brt_seen[t], br_next_expected),
                             br_ready_queue)
    IN  /\ brt_pc[t] = "deliver"
        /\ br_received' = r.received
        /\ br_next_expected' = r.next_expected
        /\ br_ready_queue' = r.ready_queue
        /\ brt_return(t, "OkTrue")
        /\ UNCHANGED <<br_popped, brt_packet, brt_seen>>

InitRest == InitAlign /\ InitSeqIdle /\ InitBrt

\* the clock advances between calls
Tick ==
    /\ now < MaxTime
    /\ now' = now + 1

InitClock == now = 0

\* ------------------------------------------------------------------------
\* Specifications
\* ------------------------------------------------------------------------

\* variables outside each component
othersSend ==
    <<varsRecv, varsConn, varsLoss, varsBcast, varsBond,
      varsMore>>

othersRecv ==
    <<now, varsSend, varsConn, varsLoss, varsBcast, varsBond,
      varsMore>>

othersConn ==
    <<now, varsLoss, varsBcast, varsBond,
      varsMore>>

othersLoss ==
    <<varsSend, varsRecv, varsConn, varsBcast, varsBond,
      varsMore>>

othersBcast ==
    <<now, varsSend, varsRecv, varsConn, varsLoss, varsBond,
      varsMore>>

othersBackup ==
    <<varsSend, varsRecv, varsConn, varsLoss, varsBcast, varsGroupCalls, varsBalancer,
      varsMore>>

othersGroup ==
    <<now, varsSend, varsRecv, varsConn, varsLoss, varsBcast, varsBackup, varsBalancer,
      varsMore>>

othersBalancer ==
    <<now, varsSend, varsRecv, varsConn, varsLoss, varsBcast, varsGroup,
      varsGroupCalls, varsBackup,
      varsMore>>

\* one process-wide balancer state: a single ordering of each member map
InitBalancerIdle ==
    /\ InitBalancer
    /\ \A b \in 1..LbBalancers : lb_order[b] = [i \in 1..LbMembers |-> i]

InitBond == InitGroup /\ InitGroupCalls /\ InitBackup /\ InitBalancerIdle

\* the controller and the generator of the other specifications
InitCongIdle == InitCong /\ cc_flow_window = MaxFlowWindow

InitNakIdle == InitNak /\ nk_min_nak_interval = MaxNakInterval

\* the parameters of the lists that never call get_nak_ranges, which alone
\* reads them
InitLossNakIdle ==
    InitLossNak /\ ll_max_nak_count = MaxNakCount /\ ll_nak_interval = 0

InitMore ==
    InitBsend /\ InitCongIdle /\ InitNakIdle /\ InitLossNakIdle /\ InitRest

\* everything outside the components of varsMore
varsCore == <<varsSend, varsRecv, varsConn, varsLoss, varsBcast, varsBond>>

InitCore ==
    InitSend /\ InitRecv /\ InitConn /\ InitLoss /\ InitBcast /\ InitBond

othersBsend ==
    <<now, varsCore, varsCong, varsNak, varsLossNak, varsAlign, varsSeq, varsBrt>>

othersCong ==
    <<varsCore, varsBsend, varsNak, varsLossNak, varsAlign, varsSeq, varsBrt>>

othersNak ==
    <<varsCore, varsBsend, varsCong, varsLossNak, varsAlign, varsSeq, varsBrt>>

othersLossNak ==
    <<varsSend, varsRecv, varsConn, varsBcast, varsBond, varsBsend, varsCong,
      varsNak, varsAlign, varsSeq, varsBrt>>

othersAlign ==
    <<varsCore, varsBsend, varsCong, varsNak, varsLossNak, varsSeq, varsBrt>>

othersSeq ==
    <<now, varsCore, varsBsend, varsCong, varsNak, varsLossNak, varsAlign, varsBrt>>

othersBrt ==
    <<now, varsSend, varsRecv, varsConn, varsLoss, varsBond, varsBsend, varsCong,
      varsNak, varsLossNak, varsAlign, varsSeq>>

InitAll ==
    InitClock /\ InitSend /\ InitRecv /\ InitConn /\ InitLoss /\ InitBcast /\ InitBond /\ InitMore

vars == <<now, varsSend, varsRecv, varsConn, varsLoss, varsBcast, varsBond, varsMore>>

SendPush ==
    /\ \E payload \in SB_Payloads : SB_push(payload)
    /\ UNCHANGED <<now, othersSend>>

SendGetForSend ==
    /\ \E seq \in SB_SeqArgs : SB_get_for_send(seq)
    /\ UNCHANGED <<now, othersSend>>

SendAcknowledge ==
    /\ \E seq \in SB_SeqArgs : SB_acknowledge(seq)
    /\ UNCHANGED <<now, othersSend>>

SendAcknowledgeUpTo ==
    /\ \E seq \in SB_SeqArgs : SB_acknowledge_up_to(seq)
    /\ UNCHANGED <<now, othersSend>>

SendFlush == SB_flush_acknowledged /\ UNCHANGED <<now, othersSend>>

SendDropExpired == SB_drop_expired /\ UNCHANGED <<now, othersSend>>

SendTick == Tick /\ UNCHANGED <<varsSend, othersSend>>

NextSend ==
    \/ SendPush
    \/ SendGetForSend
    \/ SendAcknowledge
    \/ SendAcknowledgeUpTo
    \/ SendFlush
    \/ SendDropExpired
    \/ SendTick

SpecSend == InitAll /\ [][NextSend]_vars

RecvPush ==
    /\ \E seq \in 0..RecvMaxSeq, b \in PacketBoundary, m \in {0, 1} :
           RB_push([seq |-> seq, boundary |-> b, msg |-> m, payload |-> RB_payload(seq)])
    /\ UNCHANGED othersRecv

RecvPop == RB_pop_message /\ UNCHANGED othersRecv

NextRecv ==
    \/ RecvPush
    \/ RecvPop

SpecRecv == InitAll /\ [][NextRecv]_vars

\* data handed to Connection::send
ConnData == {<<7>>, <<8, 9>>}

\* data packets handed to Connection::process_data_packet
ConnPackets ==
    {[seq |-> seq, boundary |-> "Solo", msg |-> 0, payload |-> RB_payload(seq)] :
        seq \in 0..RecvMaxSeq}

ConnCreateHandshake ==
    /\ Conn_create_handshake
    /\ UNCHANGED <<othersConn, varsSend, varsRecv>>

ConnProcessHandshake ==
    /\ \E handshake \in PeerHandshakes : Conn_process_handshake(handshake)
    /\ UNCHANGED <<othersConn, varsSend, varsRecv>>

ConnSend ==
    /\ \E data \in ConnData : Conn_send(data)
    /\ UNCHANGED <<othersConn, varsRecv>>

ConnRecv == Conn_recv /\ UNCHANGED <<othersConn, varsSend>>

ConnProcessDataPacket ==
    /\ \E packet \in ConnPackets : Conn_process_data_packet(packet)
    /\ UNCHANGED <<othersConn, varsSend>>

ConnClose == Conn_close /\ UNCHANGED <<othersConn, varsSend, varsRecv>>

NextConn ==
    \/ ConnCreateHandshake
    \/ ConnProcessHandshake
    \/ ConnSend
    \/ ConnRecv
    \/ ConnProcessDataPacket
    \/ ConnClose

SpecConn == InitAll /\ [][NextConn]_vars

LossAdd ==
    /\ \E seq \in AllLossSeqs : LL_add(seq)
    /\ UNCHANGED <<now, othersLoss>>

LossAddRange ==
    /\ \E range \in LossRanges : LL_add_range(range)
    /\ UNCHANGED <<now, othersLoss>>

NextLossAdd ==
    \/ LossAdd
    \/ LossAddRange

\* a loss list that is only added to
SpecLossAdd == InitAll /\ [][NextLossAdd]_vars

\* group sequence numbers fed to the broadcast receiver
BcastSeqs == 0..BcastMaxSeq

\* every member delivers the same payload for one group sequence number, and
\* delivers it once
BcastReceive ==
    /\ \E seq \in BcastSeqs, member_id \in 1..BcastMembers :
           /\ \A c \in br_calls : ~(c.seq = seq /\ c.member_id = member_id)
           /\ BR_on_packet_received([seq |-> seq, payload |-> <<seq>>], member_id)
    /\ UNCHANGED othersBcast

BcastPop == BR_pop_ready_packet /\ UNCHANGED othersBcast

NextBcast ==
    \/ BcastReceive
    \/ BcastPop

SpecBcast == InitAll /\ [][NextBcast]_vars

\* group sequence numbers round the wrap, and two that lie half the sequence
\* space away from it
BcastWrapSeqs ==
    {SeqAdd(MAX_SEQ_NUMBER - 2, k) : k \in 0..(BcastWrapWindow - 1)}
        \cup {1073741822, 1073741824}

BcastWrapReceive ==
    /\ Cardinality(br_calls) < MaxBcastWrapCalls
    /\ \E seq \in BcastWrapSeqs, member_id \in 1..BcastMembers :
           /\ \A c \in br_calls : ~(c.seq = seq /\ c.member_id = member_id)
           /\ BR_on_packet_received([seq |-> seq, payload |-> <<seq>>], member_id)
    /\ UNCHANGED othersBcast

NextBcastWrap ==
    \/ BcastWrapReceive
    \/ BcastPop

InitAllWrap ==
    InitClock /\ InitSend /\ InitRecv /\ InitConn /\ InitLoss /\ InitBcastWrap /\ InitBond /\ InitMore

SpecBcastWrap == InitAllWrap /\ [][NextBcastWrap]_vars

\* member ids handed to BackupBonding calls; 0 is not a member of the group
BackupIds == 0..BackupMembers

BackupSetPrimary ==
    /\ \E member_id \in BackupIds : BK_set_primary(member_id)
    /\ UNCHANGED <<now, othersBackup>>

BackupAddBackup ==
    /\ \E member_id \in BackupIds : BK_add_backup(member_id)
    /\ UNCHANGED <<now, othersBackup>>

BackupSend ==
    /\ \E sent, resent \in BOOLEAN : BK_send(sent, resent)
    /\ UNCHANGED <<now, othersBackup>>

BackupHealthCheck == BK_health_check /\ UNCHANGED <<now, othersBackup>>

BackupManualFailover ==
    /\ \E member_id \in BackupIds : BK_manual_failover(member_id)
    /\ UNCHANGED <<now, othersBackup>>

BackupTick == Tick /\ UNCHANGED <<othersBackup, varsBond>>

NextBackup ==
    \/ BackupSetPrimary
    \/ BackupAddBackup
    \/ BackupSend
    \/ BackupHealthCheck
    \/ BackupManualFailover
    \/ BackupTick

InitAllBackup ==
    /\ InitClock /\ InitSend /\ InitRecv /\ InitConn /\ InitLoss /\ InitBcast
    /\ InitBackupGroup /\ InitGroupCalls /\ InitBackup /\ InitBalancerIdle /\ InitMore

SpecBackup == InitAllBackup /\ [][NextBackup]_vars

GroupCallAddMember ==
    /\ \E t \in 1..GroupThreads, id \in 1..GroupIds : GRP_call(t, "add_member", id)
    /\ UNCHANGED othersGroup

GroupCallRemoveMember ==
    /\ \E t \in 1..GroupThreads, id \in 1..GroupIds : GRP_call(t, "remove_member", id)
    /\ UNCHANGED othersGroup

GroupCallNextSequence ==
    /\ \E t \in 1..GroupThreads : GRP_call(t, "next_sequence", 0)
    /\ UNCHANGED othersGroup

GroupAddMemberLock ==
    /\ \E t \in 1..GroupThreads : GRP_add_member_lock(t)
    /\ UNCHANGED othersGroup

GroupAddMemberCheck ==
    /\ \E t \in 1..GroupThreads : GRP_add_member_check(t)
    /\ UNCHANGED othersGroup

GroupAddMemberInsert ==
    /\ \E t \in 1..GroupThreads : GRP_add_member_insert(t)
    /\ UNCHANGED othersGroup

GroupRemoveMemberLock ==
    /\ \E t \in 1..GroupThreads : GRP_remove_member_lock(t)
    /\ UNCHANGED othersGroup

GroupRemoveMemberRemove ==
    /\ \E t \in 1..GroupThreads : GRP_remove_member_remove(t)
    /\ UNCHANGED othersGroup

GroupNextSequenceLock ==
    /\ \E t \in 1..GroupThreads : GRP_next_sequence_lock(t)
    /\ UNCHANGED othersGroup

GroupNextSequenceRead ==
    /\ \E t \in 1..GroupThreads : GRP_next_sequence_read(t)
    /\ UNCHANGED othersGroup

GroupNextSequenceWrite ==
    /\ \E t \in 1..GroupThreads : GRP_next_sequence_write(t)
    /\ UNCHANGED othersGroup

NextGroup ==
    \/ GroupCallAddMember
    \/ GroupCallRemoveMember
    \/ GroupCallNextSequence
    \/ GroupAddMemberLock
    \/ GroupAddMemberCheck
    \/ GroupAddMemberInsert
    \/ GroupRemoveMemberLock
    \/ GroupRemoveMemberRemove
    \/ GroupNextSequenceLock
    \/ GroupNextSequenceRead
    \/ GroupNextSequenceWrite

InitAllGroup ==
    /\ InitClock /\ InitSend /\ InitRecv /\ InitConn /\ InitLoss /\ InitBcast
    /\ InitGroupWrap /\ InitGroupCalls /\ InitBackup /\ InitBalancerIdle /\ InitMore

SpecGroup == InitAllGroup /\ [][NextGroup]_vars

BalancerSend ==
    /\ \E b \in 1..LbBalancers, fails \in SUBSET (1..LbMembers) : LB_send(b, fails)
    /\ UNCHANGED othersBalancer

NextBalancer == BalancerSend

InitAllBalancer ==
    /\ InitClock /\ InitSend /\ InitRecv /\ InitConn /\ InitLoss /\ InitBcast
    /\ InitGroup /\ InitGroupCalls /\ InitBackup /\ InitBalancer /\ InitMore

SpecBalancer == InitAllBalancer /\ [][NextBalancer]_vars

BsendSend ==
    /\ \E fails \in SUBSET (1..BsMembers) : BS_send(fails)
    /\ UNCHANGED othersBsend

NextBsend == BsendSend

InitAllBsend == InitClock /\ InitCore /\ InitMore

SpecBsend == InitAllBsend /\ [][NextBsend]_vars

CongOnPacketSent == CC_on_packet_sent /\ UNCHANGED <<now, othersCong>>

CongOnAck ==
    /\ \E acked_packets \in 0..MaxAcked : CC_on_ack(acked_packets)
    /\ UNCHANGED <<now, othersCong>>

CongOnLoss ==
    /\ \E lost_packets \in 0..MaxAcked : CC_on_loss(lost_packets)
    /\ UNCHANGED <<now, othersCong>>

CongUpdateFlowWindow ==
    /\ \E new_flow_window \in 0..MaxFlowWindow :
           CC_update_flow_window(new_flow_window)
    /\ UNCHANGED <<now, othersCong>>

CongReset == CC_reset /\ UNCHANGED <<now, othersCong>>

CongTick == Tick /\ UNCHANGED <<varsCong, othersCong>>

NextCong ==
    \/ CongOnPacketSent
    \/ CongOnAck
    \/ CongOnLoss
    \/ CongUpdateFlowWindow
    \/ CongReset
    \/ CongTick

InitAllCong ==
    InitClock /\ InitCore /\ InitBsend /\ InitCong /\ InitNakIdle /\ InitLossNakIdle
    /\ InitRest

SpecCong == InitAllCong /\ [][NextCong]_vars

NakGenerate ==
    /\ \E loss_ranges \in 0..1 : NK_generate_nak(loss_ranges)
    /\ UNCHANGED <<now, othersNak>>

NakTick == Tick /\ UNCHANGED <<varsNak, othersNak>>

NextNak ==
    \/ NakGenerate
    \/ NakTick

InitAllNak ==
    InitClock /\ InitCore /\ InitBsend /\ InitCongIdle /\ InitNak /\ InitLossNakIdle
    /\ InitRest

SpecNak == InitAllNak /\ [][NextNak]_vars

LossNakAddRange ==
    /\ ll_calls < MaxLossNakCalls
    /\ \E range \in NakRanges : LL_add_lost(range)
    /\ UNCHANGED <<now, othersLossNak>>

LossNakRemove ==
    /\ ll_calls < MaxLossNakCalls
    /\ \E seq \in NakSeqs : LL_remove(seq)
    /\ UNCHANGED <<now, othersLossNak>>

LossNakGetNakRanges ==
    /\ ll_calls < MaxLossNakCalls
    /\ LL_get_nak_ranges
    /\ UNCHANGED <<now, othersLossNak>>

LossNakTick == Tick /\ UNCHANGED <<varsLoss, varsLossNak, othersLossNak>>

NextLossNak ==
    \/ LossNakAddRange
    \/ LossNakRemove
    \/ LossNakGetNakRanges
    \/ LossNakTick

InitAllLossNak ==
    InitClock /\ InitCore /\ InitBsend /\ InitCongIdle /\ InitNakIdle /\ InitLossNak
    /\ InitRest

\* a receiver's loss list: losses added, recovered and reported
SpecLossNak == InitAllLossNak /\ [][NextLossNak]_vars

SenderLossAddRange ==
    /\ \E range \in NakRanges : LL_add_lost(range)
    /\ UNCHANGED <<now, othersLossNak>>

SenderLossRemove ==
    /\ \E seq \in NakSeqs : LL_remove(seq)
    /\ UNCHANGED <<now, othersLossNak>>

SenderLossPopNext == SLL_pop_next /\ UNCHANGED <<now, othersLossNak>>

NextSenderLoss ==
    \/ SenderLossAddRange
    \/ SenderLossRemove
    \/ SenderLossPopNext

\* a SenderLossList: its inner list added to, removed from and popped
SpecSenderLoss == InitAll /\ [][NextSenderLoss]_vars

AlignAddPacket ==
    /\ \E seq \in AbSeqs : AB_add_packet(seq)
    /\ UNCHANGED <<now, othersAlign>>

AlignPopNext == AB_pop_next /\ UNCHANGED <<now, othersAlign>>

AlignPopReadyPackets == AB_pop_ready_packets /\ UNCHANGED <<now, othersAlign>>

AlignSetNextExpected ==
    /\ \E seq \in AbSeqs : AB_set_next_expected(seq)
    /\ UNCHANGED <<now, othersAlign>>

AlignTick == Tick /\ UNCHANGED <<varsAlign, othersAlign>>

NextAlign ==
    \/ AlignAddPacket
    \/ AlignPopNext
    \/ AlignPopReadyPackets
    \/ AlignSetNextExpected
    \/ AlignTick

SpecAlign == InitAll /\ [][NextAlign]_vars

InitAllSeq ==
    InitClock /\ InitCore /\ InitBsend /\ InitCongIdle /\ InitNakIdle
    /\ InitLossNakIdle /\ InitAlign /\ InitSeq /\ InitBrt

SeqDistanceTo == SQ_distance_to /\ UNCHANGED othersSeq

SeqNextOf == SQ_next /\ UNCHANGED othersSeq

SeqAddSub == SQ_add_sub /\ UNCHANGED othersSeq

NextSeq ==
    \/ SeqDistanceTo
    \/ SeqNextOf
    \/ SeqAddSub

SpecSeq == InitAllSeq /\ [][NextSeq]_vars

\* one receive thread per member; a member delivers a group sequence number
\* once
BcastThreadCall ==
    /\ Cardinality(br_calls) + Cardinality({t \in BrtThreadIds : brt_pc[t] # "idle"})
           < MaxBrtCalls
    /\ \E t \in BrtThreadIds, seq \in BcastSeqs :
           /\ \A c \in br_calls : ~(c.seq = seq /\ c.member_id = t)
           /\ BRT_call(t, [seq |-> seq, payload |-> <<seq>>])
    /\ UNCHANGED othersBrt

BcastThreadReadNextExpected ==
    (\E t \in BrtThreadIds : BRT_read_next_expected(t)) /\ UNCHANGED othersBrt

BcastThreadLockReceived ==
    (\E t \in BrtThreadIds : BRT_lock_received(t)) /\ UNCHANGED othersBrt

BcastThreadInsert ==
    (\E t \in BrtThreadIds : BRT_insert(t)) /\ UNCHANGED othersBrt

BcastThreadLockNextExpected ==
    (\E t \in BrtThreadIds : BRT_lock_next_expected(t)) /\ UNCHANGED othersBrt

BcastThreadDeliver ==
    (\E t \in BrtThreadIds : BRT_deliver(t)) /\ UNCHANGED othersBrt

BcastThreadPop == BR_pop_ready_packet /\ UNCHANGED <<varsBrt, othersBrt>>

NextBcastThreads ==
    \/ BcastThreadCall
    \/ BcastThreadReadNextExpected
    \/ BcastThreadLockReceived
    \/ BcastThreadInsert
    \/ BcastThreadLockNextExpected
    \/ BcastThreadDeliver
    \/ BcastThreadPop

SpecBcastThreads == InitAll /\ [][NextBcastThreads]_vars

\* ------------------------------------------------------------------------
\* Claims about the send buffer
\* ------------------------------------------------------------------------

\* C3: oldest_in_buffer <= oldest_unacked <= next_seq in wrap-aware order
\* after any sequence of SendBuffer calls.
C3_SendOrderInvariant ==
    /\ SeqLe(sb_oldest_in_buffer, sb_oldest_unacked)
    /\ SeqLe(sb_oldest_unacked, sb_next_seq)

\* sequence numbers pushed so far
sb_pushed == {x \in 0..MaxPush : x < sb_next_seq}

\* C2: right after acknowledge_up_to(s) followed by flush_acknowledged, get(x)
\* fails for every x <= s (wrap-aware) and succeeds for every pushed x > s
\* that was neither acknowledged nor dropped.
C2_AckFlushGet ==
    sb_last[1] = "flushed" =>
        /\ \A x \in SB_SeqArgs : SeqLe(x, sb_last[2]) => ~sb_get_ok(sb_buffer, x)
        /\ \A x \in sb_pushed :
               (SeqGt(x, sb_last[2]) /\ x \notin sb_acked /\ x \notin sb_dropped)
                   => sb_get_ok(sb_buffer, x)

\* ------------------------------------------------------------------------
\* Claims about the receive buffer
\* ------------------------------------------------------------------------

\* the packet of sequence number i among the pushed ones
rb_packet_at(i) == CHOOSE p \in rb_pushed : p.seq = i

\* the pushed packets are exactly one packet for each of 0 .. n-1
rb_window_contiguous ==
    /\ rb_pushed # {}
    /\ \A p \in rb_pushed : p.seq < Cardinality(rb_pushed)
    /\ \A p, q \in rb_pushed : p.seq = q.seq => p = q

\* packets i .. n-1 form whole messages: Solo, or First Subsequent* Last
\* sharing one message number
RECURSIVE rb_whole_messages(_, _, _, _)
rb_whole_messages(i, n, open, msg) ==
    IF i = n THEN ~open
    ELSE LET p == rb_packet_at(i)
         IN  IF ~open
             THEN \/ p.boundary = "Solo" /\ rb_whole_messages(i + 1, n, FALSE, 0)
                  \/ p.boundary = "First" /\ rb_whole_messages(i + 1, n, TRUE, p.msg)
             ELSE /\ p.msg = msg
                  /\ \/ p.boundary = "Subsequent" /\ rb_whole_messages(i + 1, n, TRUE, msg)
                     \/ p.boundary = "Last" /\ rb_whole_messages(i + 1, n, FALSE, 0)

\* the messages of packets i .. n-1 in sequence order
RECURSIVE rb_in_order_messages(_, _, _)
rb_in_order_messages(i, n, cur) ==
    IF i = n THEN <<>>
    ELSE LET p == rb_packet_at(i)
         IN  IF p.boundary \in {"Solo", "Last"}
             THEN <<cur \o p.payload>> \o rb_in_order_messages(i + 1, n, <<>>)
             ELSE rb_in_order_messages(i + 1, n, cur \o p.payload)

rb_window_complete ==
    /\ rb_window_contiguous
    /\ rb_whole_messages(0, Cardinality(rb_pushed), FALSE, 0)

\* C1: once every packet of a contiguous window of whole messages starting at
\* next_expected has been pushed, in any order, the messages handed out by
\* pop_message (those already popped, then those still queued) are the messages
\* of the window in sequence order.
C1_InOrderDelivery ==
    rb_window_complete =>
        /\ rb_status = "ok"
        /\ rb_popped \o rb_ready_messages =
               rb_in_order_messages(0, Cardinality(rb_pushed), <<>>)

\* a window holding a multi-packet message, pushed out of order, fully popped
C1_Witness ==
    /\ rb_window_complete
    /\ rb_reordered
    /\ Cardinality(rb_pushed) >= 3
    /\ rb_ready_messages = <<>>
    /\ Len(rb_popped) >= 2
    /\ \E k \in 1..Len(rb_popped) : Len(rb_popped[k]) >= 2

\* ------------------------------------------------------------------------
\* Claims about the connection
\* ------------------------------------------------------------------------

\* position of a state along Init, Connecting, Connected, Closing, Closed
ConnRank(state) ==
    CASE state = "Init" -> 0
      [] state = "Connecting" -> 1
      [] state = "Connected" -> 2
      [] state = "Closing" -> 3
      [] state = "Closed" -> 4

C5_CreateHandshakeConnecting ==
    [][(conn_state = "Init" /\ conn_last' = "create_handshake")
          => conn_state' = "Connecting"]_vars

\* C6 as claimed: close ends in Closed from Connected or Connecting and is
\* rejected with InvalidState, state unchanged, from Init, Closing and Closed.
C6_CloseRejectedUnlessOpen ==
    [][conn_last' = "close" =>
          IF conn_state \in {"Connected", "Connecting"}
          THEN conn_state' = "Closed"
          ELSE conn_result' = "InvalidState" /\ conn_state' = conn_state]_vars

\* C6 as amended: close is accepted in every state; it never fails and always
\* ends in Closed.
C6_CloseAlwaysCloses ==
    [][conn_last' = "close" => (conn_state' = "Closed" /\ conn_result' = "Ok")]_vars

\* close was called on a connection that never left Init
C6_Witness ==
    /\ conn_last = "close"
    /\ conn_state = "Closed"
    /\ conn_remote_socket_id = <<>>

\* C7: a handshake processed while Connected changes nothing: the state stays
\* Connected and the peer socket id and negotiated options stay as they were.
C7_HandshakeRedelivery ==
    [][(conn_state = "Connected" /\ conn_last' = "process_handshake")
          => UNCHANGED <<conn_state, conn_remote_socket_id, conn_options>>]_vars

\* a second handshake arrived on a connection with negotiated options
C7_Witness ==
    /\ conn_state = "Connected"
    /\ conn_last = "process_handshake"
    /\ conn_result = "InvalidState"
    /\ conn_remote_socket_id = <<54321>>
    /\ conn_options = default_capabilities \ {"encryption"}

\* C8: outside Connected, send and process_data_packet fail with InvalidState
\* and leave the send buffer, the receive buffer and the statistics unchanged.
C8_TransferOnlyConnected ==
    [][(conn_state # "Connected" /\ conn_last' \in {"send", "process_data_packet"})
          => (conn_result' = "InvalidState"
              /\ UNCHANGED <<varsSend, varsRecv, conn_stats>>)]_vars

\* send was refused on a closed connection that had sent and received data
C8_Witness ==
    /\ conn_state = "Closed"
    /\ conn_last = "send"
    /\ conn_result = "InvalidState"
    /\ conn_stats.packets_sent > 0
    /\ rb_next_expected > 0

\* ------------------------------------------------------------------------
\* Claims about the loss list
\* ------------------------------------------------------------------------

ll_ranges == {ll_losses[i].range : i \in 1..Len(ll_losses)}

ll_cover(range) == {x \in AllLossSeqs : range_contains(range, x)}

ll_covered == UNION {ll_cover(r) : r \in ll_ranges}

\* start, start+1, ... , end are all in the set (at most n steps)
RECURSIVE is_run(_, _, _, _)
is_run(start, end, set, n) ==
    /\ start \in set
    /\ \/ start = end
       \/ n > 0 /\ is_run(SeqNext(start), end, set, n - 1)

\* the maximal runs of consecutive sequence numbers of a set
maximal_runs(set) ==
    {r \in [start : set, end : set] :
        /\ is_run(r.start, r.end, set, Cardinality(set))
        /\ SeqSub(r.start, 1) \notin set
        /\ SeqNext(r.end) \notin set}

\* the stored ranges neither overlap nor touch one another, cover exactly the
\* sequence numbers added, and are the maximal runs of the added set (so they
\* do not depend on the order of the calls)
ll_canonical ==
    /\ \A i, j \in 1..Len(ll_losses) :
           i # j => \A x \in ll_cover(ll_losses[i].range),
                       y \in ll_cover(ll_losses[j].range) :
                           x # y /\ SeqNext(x) # y /\ SeqNext(y) # x
    /\ ll_covered = ll_added
    /\ ll_ranges = maximal_runs(ll_added)
    /\ Len(ll_losses) = Cardinality(ll_ranges)

\* C9 as claimed: after any sequence of add / add_range calls the stored ranges
\* neither overlap nor touch, cover exactly the sequence numbers added, and do
\* not depend on the order of the calls.
C9_LossRangesCanonicalAlways == ll_canonical

\* C9 as amended: the same, for calls whose sequence numbers all lie in one
\* window of fewer than 2^30 consecutive sequence numbers.
C9_LossRangesCanonical == ll_added \subseteq LossSeqs => ll_canonical

\* two stored ranges, one of them merged across the wrap from MAX_SEQ_NUMBER to 0
C9_Witness ==
    /\ ll_added \subseteq LossSeqs
    /\ Len(ll_losses) = 2
    /\ Cardinality(ll_added) >= 4
    /\ \E i \in 1..2 : ll_losses[i].range.start > ll_losses[i].range.end

\* ------------------------------------------------------------------------
\* Claims about the broadcast receiver
\* ------------------------------------------------------------------------

br_results(seq, result) == {c \in br_calls : c.seq = seq /\ c.result = result}

br_fed_by_all(seq) == Cardinality({c \in br_calls : c.seq = seq}) = BcastMembers

\* copies of seq handed to the ready queue (popped since or not)
br_delivered(seq) ==
    LET q == br_popped \o br_ready_queue
    IN  Cardinality({i \in 1..Len(q) : q[i].seq = seq})

br_handed_over == br_popped \o br_ready_queue

\* C11: the packets popped from the ready queue carry consecutive group
\* sequence numbers, each the wrap-aware successor of the one before, up to
\* next_expected; none is out of order and none appears twice.
C11_PoppedInOrder ==
    LET q == br_handed_over
    IN  /\ \A i \in 1..(Len(q) - 1) :
               /\ q[i + 1].seq = SeqNext(q[i].seq)
               /\ SeqLt(q[i].seq, q[i + 1].seq)
        /\ \A i, j \in 1..Len(q) : q[i].seq = q[j].seq => i = j
        /\ Len(q) > 0 => br_next_expected = SeqNext(q[Len(q)].seq)

\* packets arrived out of order round the wrap and were popped in order
C11_Witness ==
    /\ Len(br_popped) = 3
    /\ br_popped[2].seq = MAX_SEQ_NUMBER
    /\ br_popped[3].seq = 0
    /\ \E c \in br_calls : c.seq = MAX_SEQ_NUMBER - 1 /\ c.result = "OkTrue"
                           /\ c.member_id = 2
    /\ \E c \in br_calls : c.seq = 0 /\ c.result = "OkTrue" /\ c.member_id = 1
    /\ \E c \in br_calls : c.seq = 0 /\ c.result = "DuplicatePacket"

\* steps from seq forward to other round the sequence space
seq_forward(seq, other) ==
    IF other >= seq THEN other - seq ELSE ((MAX_SEQ_NUMBER - seq) + other) + 1

\* seq lies before other, less than half the sequence space away
seq_before(seq, other) == seq_forward(seq, other) \in 1..HALF_SPACE

\* seq is other or lies after it, less than half the sequence space away
seq_at_or_after(seq, other) == seq_forward(other, seq) \in 0..HALF_SPACE

\* C12: an arriving packet whose seq is before next_expected in wrap-aware
\* order is rejected with DuplicatePacket, and a packet at or after
\* next_expected that is not already buffered is not rejected as a duplicate.
C12_RejectedIffBeforeNextExpected ==
    [][\A c \in br_calls' \ br_calls :
           /\ seq_before(c.seq, br_next_expected) => c.result = "DuplicatePacket"
           /\ (seq_at_or_after(c.seq, br_next_expected)
                   /\ c.seq \notin DOMAIN br_received)
              => c.result # "DuplicatePacket"]_vars

\* next_expected has wrapped to 0; a packet of MAX_SEQ_NUMBER was rejected as
\* delivered and a packet far ahead was accepted
C12_Witness ==
    /\ br_next_expected = 0
    /\ \E c \in br_calls : /\ c.seq = MAX_SEQ_NUMBER
                           /\ c.result = "DuplicatePacket"
                           /\ c.member_id = 3
    /\ \E c \in br_calls : c.seq = MAX_SEQ_NUMBER /\ c.result = "OkTrue"
    /\ \E c \in br_calls : c.seq = 1073741822 /\ c.result = "OkTrue"

\* ------------------------------------------------------------------------
\* Claims about backup bonding
\* ------------------------------------------------------------------------

\* C13: the member recorded as primary is never in status Broken.
C13_PrimaryNeverBroken ==
    bk_primary_id # BK_None => grp_status[bk_primary_id] # "Broken"

bk_history_growth == Len(bk_failover_history') - Len(bk_failover_history)

bk_primary_changed == bk_primary_id # BK_None /\ bk_primary_id' # bk_primary_id

\* the call just made was a failover that went through: an automatic one that
\* found an Idle backup, or a manual_failover that returned Ok
bk_failover_completed ==
    /\ bk_ops' # bk_ops
    /\ \/ bk_last'.op = "manual_failover" /\ bk_last'.result = "Ok"
       \/ bk_last'.failovers = 1 /\ bk_last'.result # "NoBackup"

\* C14 as claimed: the failover history grows by one exactly when the primary
\* member id changes from one member to another, so its length is the number
\* of such changes.
C14_HistoryCountsPrimaryChanges ==
    [][bk_history_growth = (IF bk_primary_changed THEN 1 ELSE 0)]_vars

\* C14 as amended: the failover history grows by one exactly when a failover
\* goes through (an automatic failover that finds an Idle backup, or a
\* manual_failover that returns Ok), and the event names the primary before
\* and after it; its length is the number of completed failovers.
C14_HistoryCountsFailovers ==
    [][/\ bk_history_growth = (IF bk_failover_completed THEN 1 ELSE 0)
       /\ bk_failover_completed =>
              LET event == bk_failover_history'[Len(bk_failover_history')]
              IN  /\ event.old_primary = bk_primary_id
                  /\ event.new_primary = bk_primary_id']_vars

\* two failovers are on record, and set_primary has just moved the primary
\* from one member to another
C14_Witness ==
    /\ Len(bk_failover_history) = 2
    /\ bk_failover_history[1].reason = "Manual"
    /\ bk_failover_history[2].reason = "PrimaryFailed"
    /\ bk_last.op = "set_primary"
    /\ bk_last.result = "Ok"
    /\ bk_last.old_primary # BK_None
    /\ bk_last.old_primary # bk_last.arg

\* positions of the backups that are Idle once failed_primary is out of service
bk_idle_backups(failed_primary) ==
    {i \in 1..Len(bk_backup_ids) :
        /\ bk_backup_ids[i] # failed_primary
        /\ grp_status[bk_backup_ids[i]] = "Idle"}

\* C15: an automatic failover leaves the old primary Broken, makes the first
\* Idle backup of the list the primary, Active and out of the backup list; with
\* no Idle backup it returns NoBackup.
C15_AutomaticFailover ==
    [][(bk_ops' # bk_ops /\ bk_last'.failovers = 1) =>
          LET idle == bk_idle_backups(bk_primary_id)
          IN  IF idle = {} THEN bk_last'.result = "NoBackup"
              ELSE /\ bk_last'.result # "NoBackup"
                   /\ grp_status'[bk_primary_id] = "Broken"
                   /\ \E i \in idle : /\ \A j \in idle : i <= j
                                      /\ bk_primary_id' = bk_backup_ids[i]
                   /\ grp_status'[bk_primary_id'] = "Active"
                   /\ \A i \in 1..Len(bk_backup_ids') :
                          bk_backup_ids'[i] # bk_primary_id']_vars

\* C16: one send call attempts at most two sends and one failover; a second
\* attempt follows a failed first one and a failover, goes to the new primary,
\* and its failure ends the call with AllMembersFailed.
C16_SendRetriesOnce ==
    [][(bk_ops' # bk_ops /\ bk_last'.op = "send") =>
          LET call == bk_last'
          IN  /\ Len(call.sends) <= 2
              /\ call.failovers <= 1
              /\ bk_history_growth <= 1
              /\ call.failovers = 1 <=> (Len(call.sends) >= 1 /\ ~call.sends[1])
              /\ Len(call.sends) = 2 =>
                     /\ call.failovers = 1
                     /\ bk_history_growth = 1
                     /\ bk_primary_id' # bk_primary_id
                     /\ call.result =
                            (IF call.sends[2] THEN "Ok" ELSE "AllMembersFailed")
              /\ call.result = "AllMembersFailed" => Len(call.sends) = 2]_vars

\* a send failed on the primary, failed over, and failed again on the new one
C16_Witness ==
    /\ bk_last.op = "send"
    /\ bk_last.sends = <<FALSE, FALSE>>
    /\ bk_last.result = "AllMembersFailed"
    /\ bk_last.failovers = 1
    /\ Len(bk_failover_history) = 1
    /\ bk_primary_id # bk_last.old_primary

\* C17: manual_failover(id) returns Ok only for an id in the backup list; then
\* id is the primary, Active and out of the backup list, and the previous
\* primary is Idle and in the backup list.
C17_ManualFailover ==
    [][(bk_ops' # bk_ops /\ bk_last'.op = "manual_failover"
            /\ bk_last'.result = "Ok") =>
          LET id == bk_last'.arg
          IN  /\ \E i \in 1..Len(bk_backup_ids) : bk_backup_ids[i] = id
              /\ bk_primary_id' = id
              /\ grp_status'[id] = "Active"
              /\ \A i \in 1..Len(bk_backup_ids') : bk_backup_ids'[i] # id
              /\ grp_status'[bk_primary_id] = "Idle"
              /\ \E i \in 1..Len(bk_backup_ids') :
                     bk_backup_ids'[i] = bk_primary_id]_vars

\* ------------------------------------------------------------------------
\* Claims about the socket group
\* ------------------------------------------------------------------------

grp_member_count == Cardinality(DOMAIN grp_status)

\* C18: the group never holds more than max_members members, and an
\* add_member call ends with GroupFull exactly when it finds the group
\* holding max_members members.
C18_GroupNeverOverfull ==
    [][/\ grp_member_count' <= GroupMaxMembers
       /\ \A t \in 1..GroupThreads :
              (grp_pc[t].op = "add_member" /\ grp_pc'[t].op = "idle") =>
                  (grp_pc'[t].result = "GroupFull"
                       <=> grp_member_count >= GroupMaxMembers)]_vars

\* the group is full, one thread's add_member has been refused, and the other
\* thread holds the lock inside another add_member
C18_Witness ==
    /\ grp_member_count = GroupMaxMembers
    /\ grp_pc[1].op = "idle" /\ grp_pc[1].result = "GroupFull"
    /\ grp_pc[2].op = "add_member" /\ grp_pc[2].at = "check"
    /\ grp_members_lock = 2

\* C19: the values returned by next_sequence are pairwise distinct and, in the
\* order the calls take effect, each is the wrap-aware successor of the one
\* before; the group's counter is the successor of the last one returned.
C19_NextSequenceLinearizable ==
    /\ \A i \in 1..(Len(grp_returned) - 1) :
           grp_returned[i + 1] = SeqNext(grp_returned[i])
    /\ \A i, j \in 1..Len(grp_returned) :
           grp_returned[i] = grp_returned[j] => i = j
    /\ Len(grp_returned) > 0 =>
           grp_next_seq = SeqNext(grp_returned[Len(grp_returned)])

\* the counter wrapped while a second caller was waiting for the lock
C19_Witness ==
    /\ grp_returned = <<MAX_SEQ_NUMBER - 1, MAX_SEQ_NUMBER>>
    /\ grp_pc[1].op = "next_sequence" /\ grp_pc[1].at = "write"
    /\ grp_pc[2].op = "next_sequence" /\ grp_pc[2].at = "lock"

\* ------------------------------------------------------------------------
\* Claims about the load balancer
\* ------------------------------------------------------------------------

\* occurrences of path_id among selections first..last of balancer b
lb_times_selected(b, path_id, first, last) ==
    Cardinality({i \in first..last : lb_selected[b][i] = path_id})

\* C20: while all n members of a balancer's group are Active (so no send has
\* failed), any n*k consecutive sends of the balancer select each member
\* exactly k times.
C20_RoundRobinEven ==
    \A b \in 1..LbBalancers :
        (\A id \in 1..LbMembers : lb_status[b][id] = "Active") =>
            \A k \in 1..(Len(lb_selected[b]) \div LbMembers) :
                \A first \in 1..(Len(lb_selected[b]) - LbMembers * k + 1) :
                    \A id \in 1..LbMembers :
                        lb_times_selected(b, id, first,
                                          first + LbMembers * k - 1) = k

\* C21: a send call tries each path at most once, so it makes at most as many
\* retries as the group has members; every path whose send failed ends Broken
\* with loss rate 1; the call ends with Ok on the last path tried or, when no
\* Active member is left, with NoActiveMembers.
C21_BalancerSendTerminates ==
    [][lb_sends' # lb_sends =>
          LET call == lb_last'
              b == call.balancer
              n == Len(call.tried)
              failed == IF call.result = "Ok" THEN n - 1 ELSE n
          IN  /\ call.result \in {"Ok", "NoActiveMembers"}
              /\ n <= LbMembers
              /\ \A i, j \in 1..n : call.tried[i] = call.tried[j] => i = j
              /\ \A i \in 1..failed :
                     /\ lb_status[b][call.tried[i]] = "Active"
                     /\ lb_status'[b][call.tried[i]] = "Broken"
                     /\ lb_capacities'[b][call.tried[i]].loss_rate = 1
              /\ call.result = "Ok" =>
                     /\ n >= 1
                     /\ lb_status'[b][call.tried[n]] = "Active"
                     /\ lb_capacities'[b][call.tried[n]].loss_rate = 0
              /\ call.result = "NoActiveMembers" =>
                     \A id \in 1..LbMembers : lb_status'[b][id] # "Active"
              /\ \A id \in 1..LbMembers :
                     lb_status'[b][id] # lb_status[b][id] =>
                         \E i \in 1..failed : call.tried[i] = id]_vars

\* one send call went through every member of the group and all of them failed
C21_Witness ==
    /\ Len(lb_last.tried) = LbMembers
    /\ lb_last.result = "NoActiveMembers"
    /\ \A id \in 1..LbMembers : lb_status[lb_last.balancer][id] = "Broken"

\* ------------------------------------------------------------------------
\* Claims about the broadcast sender
\* ------------------------------------------------------------------------

\* C22: a member is Broken exactly when it has had at least 4 consecutive send
\* failures, a successful send in between restarting the count.
C22_BrokenIffFourConsecutiveFailures ==
    \A id \in 1..BsMembers :
        bs_status[id] = "Broken" <=> bs_longest[id] >= BS_FAILURE_LIMIT + 1

\* C23: send returns NoActiveMembers exactly when the group has no Active
\* member, and AllPathsFailed exactly when at least one Active member was
\* attempted and every attempted send failed.
C23_AllPathsFailedIffNoSuccess ==
    [][bs_sends' # bs_sends =>
          LET active == {id \in 1..BsMembers : bs_status[id] = "Active"}
              call == bs_last'
          IN  /\ call.attempted = active
              /\ call.result = "NoActiveMembers" <=> active = {}
              /\ call.result = "AllPathsFailed" <=>
                     (call.attempted # {} /\ call.failed = call.attempted)
              /\ call.result = "Ok" <=> call.failed # call.attempted]_vars

\* a send on two Active members failed on both; an earlier one failed on one
C23_Witness ==
    /\ bs_last.result = "AllPathsFailed"
    /\ Cardinality(bs_last.attempted) = 2
    /\ \E id \in 1..BsMembers : bs_failure_count[id] >= 2

\* ------------------------------------------------------------------------
\* Claims about the congestion controller
\* ------------------------------------------------------------------------

\* an on_loss call that took the reduction branch
cc_loss_processed == cc_calls' # cc_calls /\ cc_last'.op = "on_loss" /\ cc_last'.reduced

\* C24: after every loss event processed by on_loss the window is strictly
\* smaller than before and slow_start is false; no loss takes it below 2.
C24_LossAlwaysShrinksWindow ==
    [][cc_loss_processed =>
          /\ cc_congestion_window' < cc_congestion_window
          /\ cc_slow_start' = FALSE
          /\ cc_congestion_window' >= CC_MIN_CWND]_vars

\* C24 as the code has it: a processed loss halves the window down to the
\* floor of 2: the window is strictly smaller when it was above 2 and is
\* set to 2 when it was 2 or less; slow_start is false afterwards.
C24_LossShrinksWindowToFloor ==
    [][cc_loss_processed =>
          /\ cc_congestion_window > CC_MIN_CWND
                 => cc_congestion_window' < cc_congestion_window
          /\ cc_congestion_window <= CC_MIN_CWND
                 => cc_congestion_window' = CC_MIN_CWND
          /\ cc_slow_start' = FALSE
          /\ cc_congestion_window' >= CC_MIN_CWND
          /\ cc_ssthresh' = cc_congestion_window \div 2]_vars

\* a second processed loss, an interval after the first, met the floor
C24_Witness ==
    /\ cc_last.op = "on_loss"
    /\ cc_last.reduced
    /\ cc_last.cwnd = CC_MIN_CWND
    /\ cc_congestion_window = CC_MIN_CWND
    /\ cc_last_congestion_event > 0
    /\ ~cc_slow_start

\* ------------------------------------------------------------------------
\* Claims about the NAK generator
\* ------------------------------------------------------------------------

\* C25: a generate_nak call yields a packet exactly when its loss ranges are
\* not empty and either no NAK was produced yet (the first may fire at once)
\* or the last produced NAK is at least min_nak_interval old; so a call less
\* than the interval after a produced NAK yields nothing, one at least the
\* interval after it yields another, and empty loss ranges yield nothing.
C25_NakThrottled ==
    [][nk_calls' # nk_calls =>
          LET call == nk_last'
              count == Len(nk_produced_at)
              due == \/ count = 0
                     \/ now - nk_produced_at[count] >= nk_min_nak_interval
          IN  /\ call.result = "Some" <=> (call.ranges > 0 /\ due)
              /\ call.result = "Some" =>
                     nk_produced_at' = Append(nk_produced_at, now)
              /\ call.result = "None" => nk_produced_at' = nk_produced_at]_vars

\* a first NAK at time 0, a suppressed call on a non-empty loss set, a second
\* NAK one interval later and a suppressed back-to-back call after it
C25_Witness ==
    /\ nk_min_nak_interval >= 1
    /\ Len(nk_produced_at) = 2
    /\ nk_produced_at[1] = 0
    /\ nk_produced_at[2] = nk_min_nak_interval
    /\ nk_calls = 4
    /\ nk_last.result = "None"
    /\ nk_last.ranges > 0
    /\ nk_last.at = nk_produced_at[2]

\* ------------------------------------------------------------------------
\* Claims about NAK reporting, removal and the sender loss list
\* ------------------------------------------------------------------------

\* C26: across add, remove and get_nak_ranges calls, a lost sequence number
\* that get_nak_ranges returned is not returned again less than nak_interval
\* later (unless it was removed in between).
C26_NotReportedTwiceWithinInterval ==
    [][(ll_calls' # ll_calls /\ ll_last'.op = "get_nak_ranges") =>
          \A x \in ll_in_ranges(ll_last'.ranges) :
              \/ ll_last_report[x] = LL_None
              \/ now - ll_last_report[x] >= ll_nak_interval]_vars

\* C27: remove(seq) removes exactly seq: afterwards the list contains what it
\* contained before except seq, and it has at most one entry more.
C27_RemoveExactlySeq ==
    [][(ll_calls' # ll_calls /\ ll_last'.op = "remove") =>
          /\ ll_covered' = ll_covered \ {ll_last'.seq}
          /\ Len(ll_losses') <= Len(ll_losses) + 1
          /\ Len(ll_losses') >= Len(ll_losses) - 1]_vars

\* the middle of a range across the wrap was removed, leaving two entries
C27_Witness ==
    /\ ll_last.op = "remove"
    /\ ll_last.seq = MAX_SEQ_NUMBER
    /\ Len(ll_losses) = 2
    /\ ll_losses[1].range = [start |-> MAX_SEQ_NUMBER - 1, end |-> MAX_SEQ_NUMBER - 1]
    /\ ll_losses[1].nak_count = 1
    /\ ll_losses[2].nak_count = 1
    /\ ll_losses[2].range = [start |-> 0, end |-> 0]

\* C28: pop_next returns the smallest sequence number of the list and removes
\* exactly that one; repeated calls return increasing sequence numbers, and
\* an empty list returns nothing.
C28_PopNextSmallest ==
    [][(ll_calls' # ll_calls /\ ll_last'.op = "pop_next") =>
          IF ll_covered = {}
          THEN ll_last'.seq = LL_None /\ ll_losses' = ll_losses
          ELSE /\ ll_last'.seq \in ll_covered
               /\ \A x \in ll_covered : loss_pos(ll_last'.seq) <= loss_pos(x)
               /\ ll_covered' = ll_covered \ {ll_last'.seq}
               /\ \A i \in 1..Len(ll_popped) :
                      loss_pos(ll_popped[i]) < loss_pos(ll_last'.seq)]_vars

\* three pops in a row crossed the wrap in order and emptied the list
C28_Witness ==
    /\ ll_popped = <<MAX_SEQ_NUMBER - 1, MAX_SEQ_NUMBER, 0>>
    /\ ll_losses = <<>>

\* ------------------------------------------------------------------------
\* Claims about a full send buffer and about duplicates in the receive buffer
\* ------------------------------------------------------------------------

\* a step of SendBuffer::push
sb_push_step ==
    /\ now' = now
    /\ sb_last'[1] \in {"pushed", "full"}
    /\ <<sb_buffer, sb_next_seq, sb_dropped, sb_last>>'
           # <<sb_buffer, sb_next_seq, sb_dropped, sb_last>>

\* the stored packets that are neither expired nor acknowledged
sb_live(buf) ==
    {buf[i].seq : i \in {j \in DOMAIN buf :
                            buf[j].some /\ ~buf[j].acknowledged /\ ~sb_expired(buf[j])}}

\* C29: push fails with Full exactly when every slot holds a packet and none
\* of them is expired; when the sweep removes an expired entry the push
\* succeeds; a successful push takes the next sequence number and overwrites
\* no stored, unexpired, unacknowledged packet.
C29_FullIffNothingExpired ==
    [][sb_push_step =>
          /\ sb_last'[1] = "full" <=>
                 /\ \A i \in DOMAIN sb_buffer : sb_buffer[i].some
                 /\ sb_expired_seqs(sb_buffer) = {}
          /\ sb_last'[1] = "pushed" =>
                 /\ sb_last'[2] = sb_next_seq
                 /\ sb_next_seq' = SeqNext(sb_next_seq)
                 /\ sb_live(sb_buffer) \subseteq sb_live(sb_buffer')]_vars

\* the payloads of a sequence of messages, one after the other
RECURSIVE rb_flat(_)
rb_flat(messages) ==
    IF messages = <<>> THEN <<>> ELSE Head(messages) \o rb_flat(Tail(messages))

\* how many times a sequence number's payload is part of a delivered message
rb_times_delivered(seq) ==
    LET flat == rb_flat(rb_popped \o rb_ready_messages)
    IN  Cardinality({i \in 1..Len(flat) : flat[i] = seq})

\* the packet of a push is stored in a slot that holds its sequence number
rb_duplicate(packet) ==
    /\ ~SeqLt(packet.seq, rb_next_expected)
    /\ rb_buffer[rb_index(packet.seq)].some
    /\ rb_buffer[rb_index(packet.seq)].seq = packet.seq

\* no sequence number is part of more than one delivered message
rb_delivered_once == \A seq \in 0..RecvMaxSeq : rb_times_delivered(seq) <= 1

\* C30: a push of a packet whose sequence number already occupies its slot
\* leaves the stored packet (and so the buffer and the ready messages)
\* unchanged, and no sequence number is part of more than one delivered
\* message however many times it is pushed.
C30_DuplicateLeavesStoredPacket ==
    /\ [][rb_pushes' # rb_pushes =>
             \A packet \in rb_pushed' \ rb_pushed :
                 rb_duplicate(packet) =>
                     /\ rb_buffer' = rb_buffer
                     /\ rb_ready_messages' = rb_ready_messages]_vars
    /\ []rb_delivered_once

\* ------------------------------------------------------------------------
\* Claims about reassembly and the loss list of the receive buffer
\* ------------------------------------------------------------------------

\* the messages handed to the ready queue so far
rb_messages == rb_popped \o rb_ready_messages

\* the payloads of a message are those of consecutive sequence numbers
rb_consecutive(message) ==
    \A k \in 1..(Len(message) - 1) : message[k + 1] = SeqNext(message[k])

\* a packet with that sequence number, message number and one of the
\* boundaries was pushed
rb_was_pushed(seq, msg, boundaries) ==
    \E p \in rb_pushed : p.seq = seq /\ p.msg = msg /\ p.boundary \in boundaries

\* C31: no partial message is delivered: every message of more than one
\* packet is the concatenation, in sequence order, of the payloads of
\* consecutive packets sharing one message number, from a First to a Last;
\* a message of one packet is a Solo packet.
C31_NoPartialMessage ==
    \A i \in 1..Len(rb_messages) :
        LET message == rb_messages[i]
            n == Len(message)
        IN  /\ n >= 1
            /\ rb_consecutive(message)
            /\ n = 1 => \E msg \in {0, 1} : rb_was_pushed(message[1], msg, {"Solo"})
            /\ n > 1 =>
                   \E msg \in {0, 1} :
                       /\ rb_was_pushed(message[1], msg, {"First"})
                       /\ rb_was_pushed(message[n], msg, {"Last"})
                       /\ \A k \in 2..(n - 1) :
                              rb_was_pushed(message[k], msg, {"First", "Subsequent"})

\* a message of three packets was delivered after its Last arrived first
C31_Witness ==
    /\ rb_reordered
    /\ \E i \in 1..Len(rb_messages) : Len(rb_messages[i]) = 3
    /\ \E p \in rb_pushed : p.boundary = "Subsequent"

\* the sequence numbers from a to b whose slot is empty
rb_missing(a, b) ==
    {x \in 0..(RecvMaxSeq + 1) :
        SeqLe(a, x) /\ SeqLe(x, b) /\ ~rb_buffer[rb_index(x)].some}

\* the loss list of the buffer, and the sequence numbers in it
rb_losses == rb_get_loss_list(rb_buffer, rb_next_expected, rb_highest_received)

rb_loss_set == {rb_losses[i] : i \in 1..Len(rb_losses)}

\* C32 as stated: get_loss_list returns exactly the sequence numbers after
\* next_expected, up to and including highest_received, whose slot is empty.
C32_LossListAfterNextExpected ==
    rb_loss_set = rb_missing(SeqNext(rb_next_expected), rb_highest_received)

\* C32: get_loss_list returns exactly the sequence numbers from next_expected
\* itself up to and including highest_received whose slot is empty, each
\* once, in increasing order.
C32_LossListFromNextExpected ==
    /\ rb_loss_set = rb_missing(rb_next_expected, rb_highest_received)
    /\ \A i \in 1..(Len(rb_losses) - 1) : SeqLt(rb_losses[i], rb_losses[i + 1])

\* packets 0, 2 and 4 were received: 1, which is next_expected, and 3 are lost
C32_Witness ==
    /\ rb_next_expected = 1
    /\ rb_highest_received = 4
    /\ rb_losses = <<1, 3>>

\* every slot from next_expected to highest_received holds a packet
rb_window_full ==
    /\ SeqLe(rb_next_expected, rb_highest_received)
    /\ rb_missing(rb_next_expected, rb_highest_received) = {}

\* the packets from next_expected to highest_received are the start of one
\* message whose Last a later packet can still bring
rb_waiting_for_last ==
    /\ rb_buffer[rb_index(rb_next_expected)].boundary = "First"
    /\ \A x \in 0..RecvMaxSeq :
           (SeqLe(rb_next_expected, x) /\ SeqLe(x, rb_highest_received)) =>
               /\ rb_buffer[rb_index(x)].boundary \in {"First", "Subsequent"}
               /\ rb_buffer[rb_index(x)].msg = rb_buffer[rb_index(rb_next_expected)].msg

\* C39: reassembly does not stall on a fully populated window: after a push
\* has returned, the slots from next_expected to highest_received are not all
\* occupied, unless they hold the start of a message still waiting for its
\* Last.
C39_FullWindowReassembled ==
    rb_status = "ok" => ~(rb_window_full /\ ~rb_waiting_for_last)

\* ------------------------------------------------------------------------
\* Claims about the alignment buffer
\* ------------------------------------------------------------------------

\* C33: whatever the order of the add_packet calls, the packets pop_next and
\* pop_ready_packets return are those of consecutive sequence numbers
\* starting at next_expected: none is skipped and none is returned twice.
C33_PoppedConsecutive ==
    /\ \A i \in 1..Len(ab_delivered) : ab_delivered[i] = SeqAdd(ab_start, i - 1)
    /\ ab_next_expected = SeqAdd(ab_start, Len(ab_delivered))
    /\ \A x \in DOMAIN ab_buffer : ab_buffer[x].received_at <= now

\* one pop_ready_packets returned the packets MAX and 0, across the wrap,
\* while packet 1 stays buffered behind them
C33_Witness ==
    /\ ab_start = MAX_SEQ_NUMBER
    /\ ab_delivered = <<MAX_SEQ_NUMBER, 0>>
    /\ ab_last.op = "pop_ready_packets"
    /\ ab_last.returned = ab_delivered
    /\ ab_next_expected = 1

\* the sequence numbers from next_expected up to, not including, the
\* wrap-aware highest buffered one that are not buffered
ab_absent ==
    IF DOMAIN ab_buffer = {} THEN {}
    ELSE {x \in AbSeqs :
             /\ SeqLe(ab_next_expected, x)
             /\ SeqLt(x, ab_highest_wrap_aware(DOMAIN ab_buffer))
             /\ x \notin DOMAIN ab_buffer}

ab_missing == ab_get_missing_sequences(ab_buffer, ab_next_expected)

\* C34: get_missing_sequences returns exactly the sequence numbers in
\* [next_expected, max_key) that are not buffered, max_key being the
\* wrap-aware highest buffered sequence number, also when the buffered
\* sequence numbers straddle the wrap.
C34_MissingUpToHighest ==
    {ab_missing[i] : i \in 1..Len(ab_missing)} = ab_absent

\* a step of add_packet
ab_add_step == ab_calls' # ab_calls /\ ab_last'.op = "add_packet"

\* the buffered entries older than max_packet_age
ab_aged == {x \in DOMAIN ab_buffer : now - ab_buffer[x].received_at > AbMaxAge}

\* C35: add_packet fails with TooOld exactly for a packet before
\* next_expected; otherwise it fails with BufferFull exactly when the buffer
\* is at capacity and no entry is aged; the buffer never holds more entries
\* than its capacity.
C35_AddPacketErrors ==
    /\ [][ab_add_step =>
             LET at_capacity == Cardinality(DOMAIN ab_buffer) >= AbBufferSize
                 too_old == SeqLt(ab_last'.seq, ab_next_expected)
             IN  /\ ab_last'.result = "TooOld" <=> too_old
                 /\ ab_last'.result = "BufferFull" <=>
                        (~too_old /\ at_capacity /\ ab_aged = {})
                 /\ ab_last'.result \in {"New", "Duplicate"} =>
                        ab_last'.seq \in DOMAIN ab_buffer']_vars
    /\ [](Cardinality(DOMAIN ab_buffer) <= AbBufferSize)

\* a packet was refused by a full buffer and, after the entries had aged,
\* accepted into it
C35_Witness ==
    /\ ab_last.op = "add_packet"
    /\ ab_last.result = "New"
    /\ Cardinality(DOMAIN ab_buffer) = 1
    /\ ab_calls >= AbBufferSize + 2
    /\ ab_delivered = <<>>
    /\ ab_start = 0
    /\ now > AbMaxAge

\* ------------------------------------------------------------------------
\* Claims about SeqNumber
\* ------------------------------------------------------------------------

\* C36: the distance between sequence numbers is antisymmetric:
\* a.distance_to(b) = -b.distance_to(a) for all a and b, also for those
\* exactly half the sequence space apart.
C36_DistanceAntisymmetric ==
    sq_op = "distance_to" => sq_out[1] = 0 - sq_out[2]

\* the distances of 0 and 2^30, half the space apart, were taken
C36_Witness ==
    /\ sq_op = "distance_to"
    /\ sq_a = 0
    /\ sq_b = HALF_SPACE + 1
    /\ sq_out = <<0 - (HALF_SPACE + 1), HALF_SPACE + 1>>

\* C37: the successor of MAX_SEQ_NUMBER is 0, and (a + k) - k = a for every
\* a and every k below 2^30.
C37_WrapRoundTrip ==
    /\ (sq_op = "next" /\ sq_a = MAX_SEQ_NUMBER) => sq_out = <<0>>
    /\ sq_op = "add_sub" => sq_out[2] = sq_a

\* MAX_SEQ_NUMBER + (2^30 - 1) wrapped to 2^30 - 2 and came back
C37_Witness ==
    /\ sq_op = "add_sub"
    /\ sq_a = MAX_SEQ_NUMBER
    /\ sq_k = HALF_SPACE
    /\ sq_out = <<HALF_SPACE - 1, MAX_SEQ_NUMBER>>

\* ------------------------------------------------------------------------
\* Claims about the broadcast receiver under concurrent calls
\* ------------------------------------------------------------------------

\* C38: with on_packet_received called concurrently from several receive
\* threads, whatever the interleaving of their lock acquisitions, no group
\* sequence number is placed in the ready queue more than once and the
\* packets are placed in strictly increasing order.
C38_ReadyQueueOnceInOrder ==
    /\ \A i, j \in 1..Len(br_handed_over) :
           i < j => br_handed_over[i].seq # br_handed_over[j].seq
    /\ \A i \in 1..(Len(br_handed_over) - 1) :
           SeqLt(br_handed_over[i].seq, br_handed_over[i + 1].seq)

\* a thread that read next_expected = 0 stored packet 0 after the other
\* thread had delivered packet 0, and ran its delivery: the packet stays in
\* the map and the queue was given packet 0 once
C38_Witness ==
    /\ br_next_expected >= 1
    /\ 0 \in DOMAIN br_received
    /\ \E c1, c2 \in br_calls :
           /\ c1.seq = 0 /\ c2.seq = 0
           /\ c1.member_id # c2.member_id
           /\ c1.result = "OkTrue" /\ c2.result = "OkTrue"

\* ------------------------------------------------------------------------
\* Claims about the backup list
\* ------------------------------------------------------------------------

\* C40: after any sequence of set_primary, add_backup, manual_failover and
\* automatic failovers the backup list holds no member id twice and does not
\* hold the current primary.
C40_BackupListDistinctWithoutPrimary ==
    /\ \A i, j \in 1..Len(bk_backup_ids) :
           i < j => bk_backup_ids[i] # bk_backup_ids[j]
    /\ \A i \in 1..Len(bk_backup_ids) : bk_backup_ids[i] # bk_primary_id

====
